---- MODULE Spec2Model ----
(***************************************************************************)
(* WayCap shadow capture: rolling buffers, encoder adapters, capture       *)
(* workers, the shadow orchestrator (on_save / on_shutdown) and the muxer. *)
(* Timestamps are microseconds since the pipeline epoch.                   *)
(***************************************************************************)
EXTENDS Integers, Sequences, FiniteSets, TLC

\* ------------------------------------------------------------------------
\* Program constants
\* ------------------------------------------------------------------------
ONE_MICROS == 1000000
TARGET_FPS == 60
FRAME_INTERVAL == ONE_MICROS \div TARGET_FPS
\* Opus encoder as the tests configure it: 2 channels, frame_size 960
CHANNELS == 2
FRAME_SIZE == 960
\* samples in one raw audio frame
RAW_SAMPLES == 1024
\* capacity of the raw-frame rings (WayCap::new) and of the encoded-packet
\* ring (VaapiEncoder::new)
RAW_VIDEO_CAP == 250
RAW_AUDIO_CAP == 10
ENCODED_CAP == 120
\* test_video_buffer_stress_realistic: 5 s window, 10 s of input at 60 fps,
\* a keyframe every 30 frames
TEST_WINDOW == 5000000
TEST_FRAME_DURATION == 16667
TEST_SECONDS == 10
TEST_FPS == 60
TEST_GOP == 30
\* window of test_video_buffer_no_trim and test_video_buffer_trimming
SMALL_TEST_WINDOW == 10
\* frames and span that test expects in the buffer at the end
TEST_MAX_FRAMES == 270
TEST_MIN_DURATION == 4400000
TEST_MAX_DURATION == 4600000
\* largest max_seconds ShadowCapMode::new accepts
MAX_SECONDS == 86400
\* encoder frames one raw audio frame can complete
MaxChunks == (FRAME_SIZE - 1 + RAW_SAMPLES) \div FRAME_SIZE

\* ------------------------------------------------------------------------
\* Bounds of the model
\* ------------------------------------------------------------------------
\* config.max_seconds of the modelled run
MaxSecondsCfg == 1
\* number of insert calls explored on a stand-alone video buffer
MaxInserts == 5
\* largest distance between two successive DTS keys, in half-windows
MaxGap == 3

\* capture callback invocations plus save commands in one run
MaxEvents == 4
\* the same, in the runs where every thread finishes its step at once
MaxSeqEvents == 7

\* samples handed to a stand-alone AudioEncoder, in raw frames of RAW_SAMPLES
MaxEncFrames == 16
\* frames the codec of a stand-alone AudioEncoder holds back at most
MaxLatency == 1
\* resets of a stand-alone AudioEncoder
MaxEncResets == 1

\* steady input: frames per window, and frames per GOP
MaxSteadyRate == 8
MaxSteadyGop == 3

\* number of calls explored on a stand-alone audio buffer
MaxABufCalls == 7

\* max_seconds values tried on ShadowCapMode::new between 0 and MAX_SECONDS
MaxCfgSteps == 90
MaxPairs == 4
MaxMuxFrames == 3

\* rolling window of the video buffer (ShadowCapMode::new) in microseconds
ActualMax == MaxSecondsCfg * ONE_MICROS
\* granularity of the explored timestamps: half of the rolling window
HalfWindow == ActualMax \div 2

\* ------------------------------------------------------------------------
\* Option<i64>
\* ------------------------------------------------------------------------
None == [some |-> FALSE, v |-> 0]
Some(x) == [some |-> TRUE, v |-> x]

Min2(a, b) == IF a <= b THEN a ELSE b
Max2(a, b) == IF a >= b THEN a ELSE b

SetMin(S) == CHOOSE x \in S : \A y \in S : x <= y
SetMax(S) == CHOOSE x \in S : \A y \in S : x >= y

\* ------------------------------------------------------------------------
\* TimeWindow (buffer.rs)
\* ------------------------------------------------------------------------
TimeWindowNew == [min_time |-> None, max_time |-> None]

TimeWindowInsertTime(tw, time) ==
    [min_time |-> Some(IF tw.min_time.some THEN Min2(tw.min_time.v, time) ELSE time),
     max_time |-> Some(IF tw.max_time.some THEN Max2(tw.max_time.v, time) ELSE time)]

TimeWindowGetElapsed(tw) ==
    IF tw.min_time.some /\ tw.max_time.some
    THEN Some(tw.max_time.v - tw.min_time.v)
    ELSE None

TimeWindowReset(tw) == [min_time |-> None, max_time |-> None]

\* ------------------------------------------------------------------------
\* ShadowCaptureVideoBuffer (buffer.rs).  frames is the BTreeMap dts -> frame,
\* a function whose domain is the set of DTS keys stored.
\* ------------------------------------------------------------------------
EmptyMap == [d \in {} |-> 0]

MapInsert(m, k, val) == [d \in (DOMAIN m) \cup {k} |-> IF d = k THEN val ELSE m[d]]

MapRetain(m, keep) == [d \in keep |-> m[d]]

VideoBufferNew(max_time) ==
    [frames |-> EmptyMap,
     max_time |-> max_time,
     key_frame_keys |-> <<>>,
     time_window |-> TimeWindowNew]

\* recalculate_pts: reset the cached window and re-insert every stored PTS
RecalculatePts(buf) ==
    LET pts == {buf.frames[d].pts : d \in DOMAIN buf.frames}
    IN [buf EXCEPT !.time_window =
            IF pts = {} THEN TimeWindowNew
            ELSE [min_time |-> Some(SetMin(pts)), max_time |-> Some(SetMax(pts))]]

\* a trim that leaves the keyframe list as it is
TrimOldestGop_KeepFirstKey(buf) ==
    IF Len(buf.key_frame_keys) <= 1
    THEN buf
    ELSE LET stop_dts == buf.key_frame_keys[2]
             kept == {d \in DOMAIN buf.frames : d >= stop_dts}
         IN RecalculatePts([buf EXCEPT !.frames = MapRetain(buf.frames, kept)])

\* a trim that also drops the frame at the second keyframe
TrimOldestGop_Exclusive(buf) ==
    IF Len(buf.key_frame_keys) <= 1
    THEN buf
    ELSE LET stop_dts == buf.key_frame_keys[2]
             kept == {d \in DOMAIN buf.frames : d > stop_dts}
         IN RecalculatePts([buf EXCEPT !.frames = MapRetain(buf.frames, kept),
                                       !.key_frame_keys = Tail(buf.key_frame_keys)])

\* a trim that, with one keyframe recorded, cuts at that keyframe
TrimOldestGop_SingleKey(buf) ==
    IF Len(buf.key_frame_keys) = 0
    THEN buf
    ELSE IF Len(buf.key_frame_keys) = 1
    THEN RecalculatePts([buf EXCEPT !.frames =
             MapRetain(buf.frames, {d \in DOMAIN buf.frames : d >= buf.key_frame_keys[1]})])
    ELSE LET stop_dts == buf.key_frame_keys[2]
             kept == {d \in DOMAIN buf.frames : d >= stop_dts}
         IN RecalculatePts([buf EXCEPT !.frames = MapRetain(buf.frames, kept),
                                       !.key_frame_keys = Tail(buf.key_frame_keys)])

\* a trim that leaves the cached window as it is
TrimOldestGop_NoRecalculate(buf) ==
    IF Len(buf.key_frame_keys) <= 1
    THEN buf
    ELSE LET stop_dts == buf.key_frame_keys[2]
             kept == {d \in DOMAIN buf.frames : d >= stop_dts}
         IN [buf EXCEPT !.frames = MapRetain(buf.frames, kept),
                        !.key_frame_keys = Tail(buf.key_frame_keys)]

TrimOldestGop(buf) ==
    IF Len(buf.key_frame_keys) <= 1
    THEN buf
    ELSE LET stop_dts == buf.key_frame_keys[2]
             kept == {d \in DOMAIN buf.frames : d >= stop_dts}
         IN RecalculatePts([buf EXCEPT !.frames = MapRetain(buf.frames, kept),
                                       !.key_frame_keys = Tail(buf.key_frame_keys)])

\* an insert that trims only once the span is above the window
VideoBufferInsert_StrictlyOver(buf, timestamp, frame) ==
    LET keys1 == IF frame.is_keyframe
                 THEN Append(buf.key_frame_keys, timestamp)
                 ELSE buf.key_frame_keys
        b1 == [buf EXCEPT !.key_frame_keys = keys1,
                          !.time_window = TimeWindowInsertTime(buf.time_window, frame.pts),
                          !.frames = MapInsert(buf.frames, timestamp, frame)]
        elapsed == TimeWindowGetElapsed(b1.time_window)
    IN IF elapsed.some /\ elapsed.v > b1.max_time
       THEN TrimOldestGop(b1)
       ELSE b1

VideoBufferInsert(buf, timestamp, frame) ==
    LET keys1 == IF frame.is_keyframe
                 THEN Append(buf.key_frame_keys, timestamp)
                 ELSE buf.key_frame_keys
        b1 == [buf EXCEPT !.key_frame_keys = keys1,
                          !.time_window = TimeWindowInsertTime(buf.time_window, frame.pts),
                          !.frames = MapInsert(buf.frames, timestamp, frame)]
        elapsed == TimeWindowGetElapsed(b1.time_window)
    IN IF elapsed.some /\ elapsed.v >= b1.max_time
       THEN TrimOldestGop(b1)
       ELSE b1

GetLastGopStart(buf) ==
    IF buf.key_frame_keys = <<>> THEN None
    ELSE Some(buf.key_frame_keys[Len(buf.key_frame_keys)])

\* a reset that forgets to clear the keyframe list
VideoBufferReset_KeepKeys(buf) ==
    [buf EXCEPT !.frames = EmptyMap]

\* reset clears frames and key_frame_keys; the cached time_window is kept
VideoBufferReset(buf) ==
    [buf EXCEPT !.frames = EmptyMap, !.key_frame_keys = <<>>]

\* PTS span of the frames actually stored
StoredPts(buf) == {buf.frames[d].pts : d \in DOMAIN buf.frames}
StoredSpan(buf) == IF DOMAIN buf.frames = {} THEN 0
                   ELSE SetMax(StoredPts(buf)) - SetMin(StoredPts(buf))

EncodedVideoFrame(data, pts, dts, key) ==
    [data |-> data, pts |-> pts, dts |-> dts, is_keyframe |-> key]

\* ------------------------------------------------------------------------
\* ShadowCaptureAudioBuffer (buffer.rs).  frames is the BTreeMap pts -> data,
\* capture_times the Vec of capture timestamps in insertion order.  hung
\* records that the trim loop of insert spins without making progress: the
\* call never returns, and nothing more happens to the buffer.
\* ------------------------------------------------------------------------
AudioBufferNew(max_time) ==
    [frames |-> EmptyMap, max_time |-> max_time, capture_times |-> <<>>, hung |-> FALSE]

RECURSIVE AudioBufferTrim(_)
AudioBufferTrim(buf) ==
    IF buf.capture_times = <<>>
    THEN buf
    ELSE LET oldest == buf.capture_times[1]
             newest == buf.capture_times[Len(buf.capture_times)]
         IN IF newest - oldest >= buf.max_time
            THEN IF DOMAIN buf.frames # {}
                 THEN LET first == SetMin(DOMAIN buf.frames)
                      IN AudioBufferTrim(
                            [buf EXCEPT !.frames = MapRetain(buf.frames, (DOMAIN buf.frames) \ {first}),
                                        !.capture_times = Tail(buf.capture_times)])
                 ELSE [buf EXCEPT !.hung = TRUE]
            ELSE buf

\* an insert that never evicts
AudioBufferInsert_NoTrim(buf, timestamp, frame) ==
    IF buf.hung THEN buf
    ELSE [buf EXCEPT !.frames = MapInsert(buf.frames, timestamp, frame)]

AudioBufferInsert(buf, timestamp, frame) ==
    IF buf.hung THEN buf
    ELSE AudioBufferTrim([buf EXCEPT !.frames = MapInsert(buf.frames, timestamp, frame)])

\* an insert_capture_time that records a timestamp only once
AudioBufferInsertCaptureTime_Once(buf, time) ==
    IF buf.capture_times # <<>> /\ buf.capture_times[Len(buf.capture_times)] = time
    THEN buf
    ELSE [buf EXCEPT !.capture_times = Append(buf.capture_times, time)]

AudioBufferInsertCaptureTime(buf, time) ==
    [buf EXCEPT !.capture_times = Append(buf.capture_times, time)]

AudioBufferReset(buf) ==
    [buf EXCEPT !.frames = EmptyMap, !.capture_times = <<>>]

\* ------------------------------------------------------------------------
\* save_buffer (main.rs): the muxer.  The result records what was written:
\* status "ok", "err" (an error returned) or "panic" (index out of bounds).
\* ------------------------------------------------------------------------
RECURSIVE SortedSeq(_)
SortedSeq(S) == IF S = {} THEN <<>>
                ELSE LET m == SetMin(S) IN <<m>> \o SortedSeq(S \ {m})

\* a video write loop that skips keyframes older than the audio as well
RECURSIVE WriteVideo_SkipKeyframes(_, _, _, _)
WriteVideo_SkipKeyframes(keys, vbuf, caps, st) ==
    IF keys = <<>> \/ st.status # "ok"
    THEN st
    ELSE LET dts == Head(keys)
             frame_data == vbuf.frames[dts]
         IN IF caps = <<>>
            THEN [st EXCEPT !.status = "panic"]
            ELSE IF caps[1] > frame_data.pts
            THEN WriteVideo_SkipKeyframes(Tail(keys), vbuf, caps, st)
            ELSE LET first_pts_offset == IF st.first_offset THEN st.first_pts_offset
                                         ELSE frame_data.pts
                     packet == [pts |-> frame_data.pts - first_pts_offset,
                                dts |-> dts - first_pts_offset,
                                is_keyframe |-> frame_data.is_keyframe,
                                data |-> frame_data.data]
                 IN WriteVideo_SkipKeyframes(Tail(keys), vbuf, caps,
                       [st EXCEPT !.first_pts_offset = first_pts_offset,
                                  !.first_offset = TRUE,
                                  !.video = Append(st.video, packet),
                                  !.newest_video_pts = frame_data.pts])

\* video write loop over the DTS keys still to visit
RECURSIVE WriteVideo(_, _, _, _)
WriteVideo(keys, vbuf, caps, st) ==
    IF keys = <<>> \/ st.status # "ok"
    THEN st
    ELSE LET dts == Head(keys)
             frame_data == vbuf.frames[dts]
         IN IF caps = <<>>
            THEN [st EXCEPT !.status = "panic"]
            ELSE IF caps[1] > frame_data.pts /\ ~frame_data.is_keyframe
            THEN WriteVideo(Tail(keys), vbuf, caps, st)
            ELSE LET first_pts_offset == IF st.first_offset THEN st.first_pts_offset
                                         ELSE frame_data.pts
                     packet == [pts |-> frame_data.pts - first_pts_offset,
                                dts |-> dts - first_pts_offset,
                                is_keyframe |-> frame_data.is_keyframe,
                                data |-> frame_data.data]
                 IN WriteVideo(Tail(keys), vbuf, caps,
                       [st EXCEPT !.first_pts_offset = first_pts_offset,
                                  !.first_offset = TRUE,
                                  !.video = Append(st.video, packet),
                                  !.newest_video_pts = frame_data.pts])

\* an audio write loop without the clip to the newest video PTS
RECURSIVE WriteAudio_NoClip(_, _, _, _, _)
WriteAudio_NoClip(keys, abuf, caps, iter, st) ==
    IF keys = <<>> \/ st.status # "ok"
    THEN st
    ELSE LET pts == Head(keys)
         IN IF iter + 1 > Len(caps)
            THEN [st EXCEPT !.status = "panic"]
            ELSE IF caps[iter + 1] < st.first_pts_offset
            THEN WriteAudio_NoClip(Tail(keys), abuf, caps, iter, st)
            ELSE LET oldest_frame_offset == IF st.audio_first THEN st.oldest_frame_offset
                                            ELSE pts
                     packet == [pts |-> pts - oldest_frame_offset,
                                dts |-> pts - oldest_frame_offset,
                                src_pts |-> pts,
                                capture |-> caps[iter + 1]]
                 IN WriteAudio_NoClip(Tail(keys), abuf, caps, iter + 1,
                       [st EXCEPT !.oldest_frame_offset = oldest_frame_offset,
                                  !.audio_first = TRUE,
                                  !.audio = Append(st.audio, packet)])

\* audio write loop; iter is the 0-based index into the capture timestamps
RECURSIVE WriteAudio(_, _, _, _, _)
WriteAudio(keys, abuf, caps, iter, st) ==
    IF keys = <<>> \/ st.status # "ok"
    THEN st
    ELSE LET pts == Head(keys)
         IN IF iter + 1 > Len(caps)
            THEN [st EXCEPT !.status = "panic"]
            ELSE IF caps[iter + 1] > st.newest_video_pts
            THEN st
            ELSE IF caps[iter + 1] < st.first_pts_offset
            THEN WriteAudio(Tail(keys), abuf, caps, iter, st)
            ELSE LET oldest_frame_offset == IF st.audio_first THEN st.oldest_frame_offset
                                            ELSE pts
                     packet == [pts |-> pts - oldest_frame_offset,
                                dts |-> pts - oldest_frame_offset,
                                src_pts |-> pts,
                                capture |-> caps[iter + 1]]
                 IN WriteAudio(Tail(keys), abuf, caps, iter + 1,
                       [st EXCEPT !.oldest_frame_offset = oldest_frame_offset,
                                  !.audio_first = TRUE,
                                  !.audio = Append(st.audio, packet)])

\* read_keys / read_caps: the audio frame keys and capture timestamps read
MuxStart ==
    [status |-> "ok", video |-> <<>>, audio |-> <<>>,
     first_pts_offset |-> 0, first_offset |-> FALSE, newest_video_pts |-> 0,
     oldest_frame_offset |-> 0, audio_first |-> FALSE,
     read_keys |-> <<>>, read_caps |-> <<>>]

\* a muxer that writes the frames after the last keyframe too
save_buffer_WholeBuffer(vbuf, abuf) ==
    LET last_keyframe == GetLastGopStart(vbuf)
    IN IF ~last_keyframe.some
       THEN [MuxStart EXCEPT !.status = "err"]
       ELSE LET caps == abuf.capture_times
                vkeys == SortedSeq(DOMAIN vbuf.frames)
                akeys == SortedSeq(DOMAIN abuf.frames)
                v == WriteVideo(vkeys, vbuf, caps,
                                [MuxStart EXCEPT !.read_keys = akeys, !.read_caps = caps])
            IN WriteAudio(akeys, abuf, caps, 0, v)

save_buffer(vbuf, abuf) ==
    LET last_keyframe == GetLastGopStart(vbuf)
    IN IF ~last_keyframe.some
       THEN [MuxStart EXCEPT !.status = "err"]
       ELSE LET caps == abuf.capture_times
                vkeys == SortedSeq({d \in DOMAIN vbuf.frames : d <= last_keyframe.v})
                akeys == SortedSeq(DOMAIN abuf.frames)
                v == WriteVideo(vkeys, vbuf, caps,
                                [MuxStart EXCEPT !.read_keys = akeys, !.read_caps = caps])
            IN WriteAudio(akeys, abuf, caps, 0, v)

\* ------------------------------------------------------------------------
\* Ring buffers (ringbuf HeapRb): try_push refuses the new element when full
\* ------------------------------------------------------------------------
\* a ring that makes room for the new element by dropping its oldest one
TryPush_Overwrite(q, cap, x) == IF Len(q) < cap THEN Append(q, x) ELSE Append(Tail(q), x)

TryPush(q, cap, x) == IF Len(q) < cap THEN Append(q, x) ELSE q

RECURSIVE TryPushAll(_, _, _)
TryPushAll(q, cap, xs) ==
    IF xs = <<>> THEN q ELSE TryPushAll(TryPush(q, cap, Head(xs)), cap, Tail(xs))

\* ------------------------------------------------------------------------
\* VaapiEncoder (vaapi_encoder.rs).  encoder: the Option is Some; id: which
\* encoder instance; sent: frames accepted by this instance; pending: packets
\* the hardware still holds; eof: send_eof has been called on this instance.
\* ------------------------------------------------------------------------
VideoEncoderNew(id) ==
    [encoder |-> TRUE, id |-> id, sent |-> 0, pending |-> <<>>, eof |-> FALSE]

\* process: send_frame, then poll receive_packet once.  key: the encoder's
\* choice of frame type (the first frame of an instance is a keyframe);
\* emit: whether receive_packet hands a packet out now; send_ok: whether
\* send_frame succeeds; dmabuf: the raw frame carries a DMA-BUF handle, whose
\* path returns a send_frame error with `?` while the other path unwraps it.
\* Result: the encoder, the encoded-packet ring, Ok or Err, or a panic.
\* an encoder that hands out the packet of the frame it was sent last
VaapiProcess_NewestFirst(enc, ring, timestamp, key, emit, send_ok, dmabuf) ==
    IF ~enc.encoder
    THEN [enc |-> enc, ring |-> ring, ok |-> TRUE, panic |-> FALSE]
    ELSE IF enc.eof \/ ~send_ok
    THEN [enc |-> enc, ring |-> ring, ok |-> FALSE, panic |-> ~dmabuf]
    ELSE LET packet == <<timestamp,
                         EncodedVideoFrame(enc.id, timestamp, timestamp,
                                           key \/ enc.sent = 0)>>
             e1 == [enc EXCEPT !.sent = enc.sent + 1]
         IN IF emit
            THEN [enc |-> e1, ring |-> TryPush(ring, ENCODED_CAP, packet),
                  ok |-> TRUE, panic |-> FALSE]
            ELSE [enc |-> [e1 EXCEPT !.pending = Append(enc.pending, packet)],
                  ring |-> ring, ok |-> TRUE, panic |-> FALSE]

VaapiProcess(enc, ring, timestamp, key, emit, send_ok, dmabuf) ==
    IF ~enc.encoder
    THEN [enc |-> enc, ring |-> ring, ok |-> TRUE, panic |-> FALSE]
    ELSE IF enc.eof \/ ~send_ok
    THEN [enc |-> enc, ring |-> ring, ok |-> FALSE, panic |-> ~dmabuf]
    ELSE LET packet == <<timestamp,
                         EncodedVideoFrame(enc.id, timestamp, timestamp,
                                           key \/ enc.sent = 0)>>
             pend == Append(enc.pending, packet)
             e1 == [enc EXCEPT !.sent = enc.sent + 1, !.pending = pend]
         IN IF emit
            THEN [enc |-> [e1 EXCEPT !.pending = Tail(pend)],
                  ring |-> TryPush(ring, ENCODED_CAP, Head(pend)),
                  ok |-> TRUE, panic |-> FALSE]
            ELSE [enc |-> e1, ring |-> ring, ok |-> TRUE, panic |-> FALSE]

\* drain: send_eof, then receive_packet until empty, pushing every packet
VaapiDrain(enc, ring, eof_ok) ==
    IF ~enc.encoder
    THEN [enc |-> enc, ring |-> ring, ok |-> TRUE]
    ELSE IF enc.eof \/ ~eof_ok
    THEN [enc |-> enc, ring |-> ring, ok |-> FALSE]
    ELSE [enc |-> [enc EXCEPT !.pending = <<>>, !.eof = TRUE],
          ring |-> TryPushAll(ring, ENCODED_CAP, enc.pending),
          ok |-> TRUE]

VaapiDropEncoder(enc) ==
    [enc EXCEPT !.encoder = FALSE, !.pending = <<>>, !.sent = 0, !.eof = FALSE]

\* reset: drop_encoder, then create_encoder (which may fail)
VaapiReset(enc, create_ok) ==
    IF create_ok
    THEN [enc |-> VideoEncoderNew(enc.id + 1), ok |-> TRUE]
    ELSE [enc |-> VaapiDropEncoder(enc), ok |-> FALSE]

\* Drop for VaapiEncoder: drain (errors only logged), then drop_encoder
VaapiDrop(enc, ring, eof_ok) ==
    LET d == VaapiDrain(enc, ring, eof_ok)
    IN [enc |-> VaapiDropEncoder(d.enc), ring |-> d.ring]

\* ------------------------------------------------------------------------
\* AudioEncoder (audio_encoder.rs).  leftover_data is kept as its length;
\* pending: PTS of the frames the codec still holds.
\* ------------------------------------------------------------------------
AudioEncoderNew(max_seconds) ==
    [encoder |-> TRUE, id |-> 1, pending |-> <<>>, eof |-> FALSE,
     audio_buffer |-> AudioBufferNew(max_seconds * ONE_MICROS),
     next_pts |-> 0, leftover_data |-> 0]

\* the chunking loop of process; emits[i] tells whether receive_packet hands
\* a packet out after the i-th frame sent by this call
RECURSIVE AudioSendChunks(_, _, _, _)
AudioSendChunks(enc, timestamp, emits, i) ==
    IF enc.leftover_data < FRAME_SIZE
    THEN [enc |-> enc, ok |-> TRUE]
    ELSE LET b1 == AudioBufferInsertCaptureTime(enc.audio_buffer, timestamp)
             e1 == [enc EXCEPT !.leftover_data = enc.leftover_data - FRAME_SIZE,
                               !.audio_buffer = b1]
         IN IF enc.eof
            THEN [enc |-> e1, ok |-> FALSE]
            ELSE LET pend == Append(enc.pending, enc.next_pts)
                     emit == emits[i]
                     e2 == IF emit
                           THEN [e1 EXCEPT !.pending = Tail(pend),
                                           !.audio_buffer =
                                               AudioBufferInsert(b1, Head(pend), enc.id)]
                           ELSE [e1 EXCEPT !.pending = pend]
                 IN IF e2.audio_buffer.hung
                    THEN [enc |-> e2, ok |-> TRUE]
                    ELSE AudioSendChunks([e2 EXCEPT !.next_pts = enc.next_pts + FRAME_SIZE],
                                         timestamp, emits, i + 1)

\* a process that forgets the samples left over by the previous call
AudioProcess_DropLeftover(enc, raw_frame, emits) ==
    IF ~enc.encoder
    THEN [enc |-> enc, ok |-> TRUE, boosted |-> FALSE]
    ELSE IF raw_frame.samples % CHANNELS # 0
    THEN [enc |-> enc, ok |-> FALSE, boosted |-> FALSE]
    ELSE LET r == AudioSendChunks([enc EXCEPT !.leftover_data = raw_frame.samples],
                                  raw_frame.timestamp, emits, 1)
         IN [enc |-> r.enc, ok |-> r.ok, boosted |-> TRUE]

\* a process without the test of the sample count against the channel count
AudioProcess_NoCheck(enc, raw_frame, emits) ==
    IF ~enc.encoder
    THEN [enc |-> enc, ok |-> TRUE, boosted |-> FALSE]
    ELSE LET r == AudioSendChunks([enc EXCEPT !.leftover_data =
                                                  enc.leftover_data + raw_frame.samples],
                                  raw_frame.timestamp, emits, 1)
         IN [enc |-> r.enc, ok |-> r.ok, boosted |-> TRUE]

\* process: boosted tells whether boost_with_rms has rewritten the samples
AudioProcess(enc, raw_frame, emits) ==
    IF ~enc.encoder
    THEN [enc |-> enc, ok |-> TRUE, boosted |-> FALSE]
    ELSE IF raw_frame.samples % CHANNELS # 0
    THEN [enc |-> enc, ok |-> FALSE, boosted |-> FALSE]
    ELSE LET r == AudioSendChunks([enc EXCEPT !.leftover_data =
                                                  enc.leftover_data + raw_frame.samples],
                                  raw_frame.timestamp, emits, 1)
         IN [enc |-> r.enc, ok |-> r.ok, boosted |-> TRUE]

RECURSIVE AudioInsertAll(_, _, _)
AudioInsertAll(buf, ptss, data) ==
    IF ptss = <<>> THEN buf
    ELSE AudioInsertAll(AudioBufferInsert(buf, Head(ptss), data), Tail(ptss), data)

AudioDrain(enc, eof_ok) ==
    IF ~enc.encoder
    THEN [enc |-> enc, ok |-> TRUE]
    ELSE IF enc.eof \/ ~eof_ok
    THEN [enc |-> enc, ok |-> FALSE]
    ELSE [enc |-> [enc EXCEPT !.pending = <<>>, !.eof = TRUE,
                              !.audio_buffer =
                                  AudioInsertAll(enc.audio_buffer, enc.pending, enc.id)],
          ok |-> TRUE]

AudioDropEncoder(enc) ==
    [enc EXCEPT !.encoder = FALSE, !.pending = <<>>, !.eof = FALSE,
                !.audio_buffer = AudioBufferReset(enc.audio_buffer)]

\* a reset_encoder that starts the PTS sequence over
AudioResetEncoder_ZeroPts(enc, create_ok) ==
    LET d == AudioDropEncoder(enc)
    IN IF create_ok
       THEN [enc |-> [d EXCEPT !.encoder = TRUE, !.id = enc.id + 1, !.next_pts = 0],
             ok |-> TRUE]
       ELSE [enc |-> d, ok |-> FALSE]

AudioResetEncoder(enc, create_ok) ==
    LET d == AudioDropEncoder(enc)
    IN IF create_ok
       THEN [enc |-> [d EXCEPT !.encoder = TRUE, !.id = enc.id + 1], ok |-> TRUE]
       ELSE [enc |-> d, ok |-> FALSE]

AudioDrop(enc, eof_ok) ==
    LET d == AudioDrain(enc, eof_ok).enc
    IN IF d.audio_buffer.hung THEN d ELSE AudioDropEncoder(d)

\* ------------------------------------------------------------------------
\* Window arithmetic.  A window in microseconds is kept as three 16-bit
\* limbs <<high, middle, low>>, so that a u32 and a usize product keep their
\* width.
\* ------------------------------------------------------------------------
LIMB == 2^16

\* max_seconds as usize * ONE_MICROS: the exact product, for max_seconds < 2^16 * 1.9
MulMicros(max_seconds) ==
    LET lo == max_seconds * (ONE_MICROS % LIMB)
        hi == max_seconds * (ONE_MICROS \div LIMB)
        t == hi + lo \div LIMB
    IN <<t \div LIMB, t % LIMB, lo % LIMB>>

\* the low 32 bits of a product
WrapU32(w) == <<0, w[2], w[3]>>

\* AudioEncoder::new_with_encoder: max_time of the audio buffer
AudioMaxTime(max_seconds) == MulMicros(max_seconds)

\* ShadowCapMode::new.  max_seconds * ONE_MICROS as u32 is a u32 product: on
\* overflow a build with overflow checks panics and any other build wraps.
ShadowCapModeNew(max_seconds, overflow_checks) ==
    LET exact == MulMicros(max_seconds)
        base == [max_seconds |-> max_seconds, video_window |-> <<0, 0, 0>>,
                 audio_window |-> <<0, 0, 0>>]
    IN IF ~(max_seconds <= MAX_SECONDS)
       THEN base @@ [status |-> "err"]
       ELSE IF exact[1] # 0 /\ overflow_checks
       THEN base @@ [status |-> "panic"]
       ELSE [base EXCEPT !.video_window = WrapU32(exact),
                         !.audio_window = AudioMaxTime(max_seconds)] @@ [status |-> "ok"]

\* ------------------------------------------------------------------------
\* State
\* ------------------------------------------------------------------------
VARIABLES
    video_buffer,  \* ShadowCapMode.video_buffer
    bufOp,         \* last call made on the stand-alone video buffer
    bufCalls,      \* number of insert calls made on the stand-alone buffer
    bufDts,        \* DTS key of the last insert on the stand-alone buffer
    bufFresh,      \* a newly constructed buffer given the inserts made since the last reset
    bufPrev,       \* the stand-alone video buffer as it was before the last call
    stream,        \* the steady input a stand-alone video buffer is fed with
    now,           \* microseconds elapsed since the pipeline epoch
    events,        \* capture callbacks fired plus save commands received
    saving,        \* AppContext.saving
    stop,          \* AppContext.stop
    raw_video,     \* raw video frame ring (producer: pipewire callback)
    raw_audio,     \* raw audio frame ring
    video_encoder, \* the VaapiEncoder behind ShadowCapMode.video_encoder
    encoded,       \* encoded-packet ring between encoder and shadow worker
    audio_encoder, \* the AudioEncoder, which owns the audio buffer
    lock,          \* holder of each tokio Mutex: venc, aenc, vbuf
    vw,            \* video worker: pc, frame in hand, last_timestamp
    aw,            \* audio worker: pc, frame in hand
    sw,            \* shadow worker: pc, packet in hand
    main,          \* command loop: pc, lock futures polled, locks waited for
    file,          \* what the last save_buffer call wrote
    saveLog,       \* steps taken by the on_save call in progress
    encOp,         \* last call made on the stand-alone AudioEncoder
    encCalls,      \* process calls the stand-alone AudioEncoder has accepted
    encSamples,    \* samples those calls have delivered
    encFrame,      \* raw frame of the last process call, and whether it was boosted
    cfg,           \* outcome of ShadowCapMode::new for a configured max_seconds
    abufOp,        \* last call made on the stand-alone audio buffer
    abufCalls,     \* number of calls made on the stand-alone audio buffer
    abufTime,      \* capture time of the last insert_capture_time on it
    ctrl_c         \* what became of a ctrl-c that arrived while on_save was running

\* variables of the runs that drive one component on its own
unitVars == <<encOp, encCalls, encSamples, encFrame, cfg, abufOp, abufCalls, abufTime, ctrl_c>>
bufVars == <<bufOp, bufCalls, bufDts, bufFresh, bufPrev, stream, unitVars>>
sysVars == <<now, events, saving, stop, raw_video, raw_audio, video_encoder, encoded,
             audio_encoder, lock, vw, aw, sw, main, file, saveLog>>
vars == <<video_buffer, bufVars, sysVars>>

NoFrame == [timestamp |-> 0, samples |-> 0]
NoPacket == <<0, EncodedVideoFrame(0, 0, 0, FALSE)>>
NoFile == [MuxStart EXCEPT !.status = "none"]
NoEncFrame == [timestamp |-> 0, samples |-> 0, boosted |-> FALSE]
NoStream == [window |-> ActualMax, interval |-> 0, gop |-> 0, bframes |-> FALSE,
             script |-> <<>>]
NoConfig == [status |-> "none", max_seconds |-> 0, video_window |-> <<0, 0, 0>>,
             audio_window |-> <<0, 0, 0>>]

\* the state right after WayCap::new and ShadowCapMode::init
PipelineInit ==
    /\ now = 0
    /\ events = 0
    /\ saving = FALSE
    /\ stop = FALSE
    /\ raw_video = <<>>
    /\ raw_audio = <<>>
    /\ video_encoder = VideoEncoderNew(1)
    /\ encoded = <<>>
    /\ audio_encoder = AudioEncoderNew(MaxSecondsCfg)
    /\ lock = [venc |-> "free", aenc |-> "free", vbuf |-> "free"]
    /\ vw = [pc |-> "idle", frame |-> NoFrame, last_timestamp |-> 0]
    /\ aw = [pc |-> "idle", frame |-> NoFrame]
    /\ sw = [pc |-> "idle", held |-> NoPacket]
    /\ main = [pc |-> "select", polled |-> 0, waiting |-> {}]
    /\ file = NoFile
    /\ saveLog = <<>>

SysInit ==
    /\ video_buffer = VideoBufferNew(ActualMax)
    /\ PipelineInit

\* ------------------------------------------------------------------------
\* Stand-alone video buffer: any sequence of insert / reset calls with
\* strictly increasing DTS keys, as the encoder hands packets out.
\* ------------------------------------------------------------------------
\* no call made yet on the stand-alone components
CallsInit ==
    /\ bufOp = "new"
    /\ bufCalls = 0
    /\ bufDts = 0
    /\ bufFresh = VideoBufferNew(ActualMax)
    /\ encOp = "new"
    /\ encCalls = 0
    /\ encSamples = 0
    /\ encFrame = NoEncFrame
    /\ abufOp = "new"
    /\ abufCalls = 0
    /\ abufTime = 0
    /\ ctrl_c = "none"

StandAloneInit ==
    /\ CallsInit
    /\ bufPrev = VideoBufferNew(ActualMax)
    /\ stream = NoStream

UnitInit ==
    /\ StandAloneInit
    /\ cfg = NoConfig

BufInit ==
    /\ SysInit
    /\ UnitInit

BufInsert ==
    /\ bufCalls < MaxInserts
    /\ \E gap \in 1..MaxGap, reorder \in 0..1, key \in BOOLEAN :
          LET dts == bufDts + gap * HalfWindow
              frame == EncodedVideoFrame(0, dts + reorder * HalfWindow, dts, key)
          IN /\ video_buffer' = VideoBufferInsert(video_buffer, dts, frame)
             /\ bufFresh' = VideoBufferInsert(bufFresh, dts, frame)
             /\ bufPrev' = video_buffer
             /\ bufDts' = dts
    /\ bufOp' = "insert"
    /\ bufCalls' = bufCalls + 1
    /\ UNCHANGED <<stream, unitVars, sysVars>>

BufReset ==
    /\ bufOp # "new"
    /\ video_buffer' = VideoBufferReset(video_buffer)
    /\ bufFresh' = VideoBufferNew(video_buffer.max_time)
    /\ bufPrev' = video_buffer
    /\ bufOp' = "reset"
    /\ UNCHANGED <<bufCalls, bufDts, stream, unitVars, sysVars>>

BufNext == BufInsert \/ BufReset

SpecBuf == BufInit /\ [][BufNext]_vars

\* ------------------------------------------------------------------------
\* tokio::sync::Mutex: a FIFO-fair lock.  A worker's guard that is dropped
\* while on_save waits for the mutex hands the mutex to on_save.
\* ------------------------------------------------------------------------
LockOrder == <<"venc", "aenc", "vbuf">>
SaveLocks == {"venc", "aenc", "vbuf"}
HoldsAll == \A l \in SaveLocks : lock[l] = "save"

Unlock(l) == [lock EXCEPT ![l] = IF l \in main.waiting THEN "save" ELSE "free"]
Granted(l) == [main EXCEPT !.waiting = main.waiting \ {l}]

\* ------------------------------------------------------------------------
\* Capture producers (pipewire process callbacks)
\* ------------------------------------------------------------------------
\* the process is gone once run() has returned or the main thread panicked
Alive == main.pc \notin {"failed", "panicked", "end"}
PwRunning == main.pc \notin {"sd_join", "end", "failed", "panicked"}

\* a process callback that does not look at the saving flag
VideoCallback_IgnoreSaving ==
    /\ PwRunning
    /\ events < MaxEvents
    /\ now' = now + HalfWindow
    /\ raw_video' = TryPush(raw_video, RAW_VIDEO_CAP, [timestamp |-> now', samples |-> 0])
    /\ events' = events + 1
    /\ UNCHANGED <<video_buffer, bufVars, saving, stop, raw_audio, video_encoder, encoded,
                   audio_encoder, lock, vw, aw, sw, main, file, saveLog>>

\* video_stream.rs process callback; callbacks fire half a window apart
VideoCallback ==
    /\ PwRunning
    /\ events < MaxEvents
    /\ now' = now + HalfWindow
    /\ raw_video' = IF saving THEN raw_video
                    ELSE TryPush(raw_video, RAW_VIDEO_CAP,
                                 [timestamp |-> now', samples |-> 0])
    /\ events' = events + 1
    /\ UNCHANGED <<video_buffer, bufVars, saving, stop, raw_audio, video_encoder, encoded,
                   audio_encoder, lock, vw, aw, sw, main, file, saveLog>>

\* audio process callback: same shape, pushes the interleaved samples
AudioCallback ==
    /\ PwRunning
    /\ events < MaxEvents
    /\ now' = now + HalfWindow
    /\ raw_audio' = IF saving THEN raw_audio
                    ELSE TryPush(raw_audio, RAW_AUDIO_CAP,
                                 [timestamp |-> now', samples |-> RAW_SAMPLES])
    /\ events' = events + 1
    /\ UNCHANGED <<video_buffer, bufVars, saving, stop, raw_video, video_encoder, encoded,
                   audio_encoder, lock, vw, aw, sw, main, file, saveLog>>

\* ------------------------------------------------------------------------
\* Video worker (create_video_worker)
\* ------------------------------------------------------------------------
\* A worker between two frames is "idle": at the top of its outer loop, in
\* the inner try_pop loop, or asleep.  VWLoop is the outer loop test seeing
\* stop set: the thread leaves and drops its Arc of the encoder; on_shutdown
\* has dropped the other one, so Drop runs.
VWLoop ==
    /\ Alive
    /\ vw.pc = "idle"
    /\ stop
    /\ LET d == VaapiDrop(video_encoder, encoded, TRUE)
       IN /\ vw' = [vw EXCEPT !.pc = "done"]
          /\ video_encoder' = d.enc
          /\ encoded' = d.ring
    /\ UNCHANGED <<video_buffer, bufVars, now, events, saving, stop, raw_video, raw_audio,
                   audio_encoder, lock, aw, sw, main, file, saveLog>>

\* a throttle that also skips the frame arriving exactly one interval later
VWPop_SkipAtInterval ==
    /\ Alive
    /\ vw.pc = "idle"
    /\ raw_video # <<>>
    /\ LET raw_frame == Head(raw_video)
           current_time == raw_frame.timestamp
       IN /\ raw_video' = Tail(raw_video)
          /\ vw' = IF current_time <= vw.last_timestamp + FRAME_INTERVAL
                   THEN vw
                   ELSE [pc |-> "lock", frame |-> raw_frame,
                         last_timestamp |-> current_time]
    /\ UNCHANGED <<video_buffer, bufVars, now, events, saving, stop, raw_audio,
                   video_encoder, encoded, audio_encoder, lock, aw, sw, main, file, saveLog>>

\* while let Some(raw_frame) = try_pop(): a frame inside the frame interval
\* is skipped, any other is taken to the encoder
VWPop ==
    /\ Alive
    /\ vw.pc = "idle"
    /\ raw_video # <<>>
    /\ LET raw_frame == Head(raw_video)
           current_time == raw_frame.timestamp
       IN /\ raw_video' = Tail(raw_video)
          /\ vw' = IF current_time < vw.last_timestamp + FRAME_INTERVAL
                   THEN vw
                   ELSE [pc |-> "lock", frame |-> raw_frame,
                         last_timestamp |-> current_time]
    /\ UNCHANGED <<video_buffer, bufVars, now, events, saving, stop, raw_audio,
                   video_encoder, encoded, audio_encoder, lock, aw, sw, main, file, saveLog>>

\* the video worker also taking the buffer mutex, to insert its packet itself
VWLock_WithBuffer ==
    /\ Alive
    /\ vw.pc = "lock"
    /\ lock.venc = "free" /\ lock.vbuf = "free"
    /\ lock' = [lock EXCEPT !.venc = "vw", !.vbuf = "vw"]
    /\ vw' = [vw EXCEPT !.pc = "process"]
    /\ UNCHANGED <<video_buffer, bufVars, now, events, saving, stop, raw_video, raw_audio,
                   video_encoder, encoded, audio_encoder, aw, sw, main, file, saveLog>>

\* video_encoder.blocking_lock()
VWLock ==
    /\ Alive
    /\ vw.pc = "lock"
    /\ lock.venc = "free"
    /\ lock' = [lock EXCEPT !.venc = "vw"]
    /\ vw' = [vw EXCEPT !.pc = "process"]
    /\ UNCHANGED <<video_buffer, bufVars, now, events, saving, stop, raw_video, raw_audio,
                   video_encoder, encoded, audio_encoder, aw, sw, main, file, saveLog>>

\* process(&raw_frame) under the lock; an error is logged; the guard is
\* dropped, also when process panics: the thread then unwinds and is gone
VWProcess ==
    /\ Alive
    /\ vw.pc = "process"
    /\ \E key \in BOOLEAN, emit \in BOOLEAN, send_ok \in BOOLEAN, dmabuf \in BOOLEAN :
          LET r == VaapiProcess(video_encoder, encoded, vw.frame.timestamp,
                                key, emit, send_ok, dmabuf)
          IN /\ video_encoder' = r.enc
             /\ encoded' = r.ring
             /\ vw' = [vw EXCEPT !.pc = IF r.panic THEN "panicked" ELSE "idle",
                                 !.frame = NoFrame]
    /\ lock' = Unlock("venc")
    /\ main' = Granted("venc")
    /\ UNCHANGED <<video_buffer, bufVars, now, events, saving, stop, raw_video, raw_audio,
                   audio_encoder, aw, sw, file, saveLog>>

\* ------------------------------------------------------------------------
\* Audio worker (create_audio_worker)
\* ------------------------------------------------------------------------
AWLoop ==
    /\ Alive
    /\ aw.pc = "idle"
    /\ stop
    /\ audio_encoder' = AudioDrop(audio_encoder, TRUE)
    /\ aw' = [aw EXCEPT !.pc = IF audio_encoder'.audio_buffer.hung THEN "spin" ELSE "done"]
    /\ UNCHANGED <<video_buffer, bufVars, now, events, saving, stop, raw_video, raw_audio,
                   video_encoder, encoded, lock, vw, sw, main, file, saveLog>>

AWPop ==
    /\ Alive
    /\ aw.pc = "idle"
    /\ raw_audio # <<>>
    /\ raw_audio' = Tail(raw_audio)
    /\ aw' = [pc |-> "lock", frame |-> Head(raw_audio)]
    /\ UNCHANGED <<video_buffer, bufVars, now, events, saving, stop, raw_video,
                   video_encoder, encoded, audio_encoder, lock, vw, sw, main, file, saveLog>>

AWLock ==
    /\ Alive
    /\ aw.pc = "lock"
    /\ lock.aenc = "free"
    /\ lock' = [lock EXCEPT !.aenc = "aw"]
    /\ aw' = [aw EXCEPT !.pc = "process"]
    /\ UNCHANGED <<video_buffer, bufVars, now, events, saving, stop, raw_video, raw_audio,
                   video_encoder, encoded, audio_encoder, vw, sw, main, file, saveLog>>

\* process(&samples) under the lock; the guard is dropped when it returns,
\* which it never does once the audio buffer's trim loop spins
AWProcess ==
    /\ Alive
    /\ aw.pc = "process"
    /\ \E emits \in [1..MaxChunks -> BOOLEAN] :
          audio_encoder' = AudioProcess(audio_encoder, aw.frame, emits).enc
    /\ IF audio_encoder'.audio_buffer.hung
       THEN /\ aw' = [aw EXCEPT !.pc = "spin"]
            /\ UNCHANGED <<lock, main>>
       ELSE /\ lock' = Unlock("aenc")
            /\ main' = Granted("aenc")
            /\ aw' = [aw EXCEPT !.pc = "idle", !.frame = NoFrame]
    /\ UNCHANGED <<video_buffer, bufVars, now, events, saving, stop, raw_video, raw_audio,
                   video_encoder, encoded, vw, sw, file, saveLog>>

\* ------------------------------------------------------------------------
\* Shadow worker (create_shadow_worker)
\* ------------------------------------------------------------------------
SWLoop ==
    /\ Alive
    /\ sw.pc = "idle"
    /\ stop
    /\ sw' = [sw EXCEPT !.pc = "done"]
    /\ UNCHANGED <<video_buffer, bufVars, now, events, saving, stop, raw_video, raw_audio,
                   video_encoder, encoded, audio_encoder, lock, vw, aw, main, file, saveLog>>

SWPop ==
    /\ Alive
    /\ sw.pc = "idle"
    /\ encoded # <<>>
    /\ encoded' = Tail(encoded)
    /\ sw' = [pc |-> "lock", held |-> Head(encoded)]
    /\ UNCHANGED <<video_buffer, bufVars, now, events, saving, stop, raw_video, raw_audio,
                   video_encoder, audio_encoder, lock, vw, aw, main, file, saveLog>>

\* the shadow worker going on without waiting for the buffer mutex
SWLock_NoWait ==
    /\ Alive
    /\ sw.pc = "lock"
    /\ lock' = [lock EXCEPT !.vbuf = "sw"]
    /\ sw' = [sw EXCEPT !.pc = "insert"]
    /\ UNCHANGED <<video_buffer, bufVars, now, events, saving, stop, raw_video, raw_audio,
                   video_encoder, encoded, audio_encoder, vw, aw, main, file, saveLog>>

\* buffer.blocking_lock()
SWLock ==
    /\ Alive
    /\ sw.pc = "lock"
    /\ lock.vbuf = "free"
    /\ lock' = [lock EXCEPT !.vbuf = "sw"]
    /\ sw' = [sw EXCEPT !.pc = "insert"]
    /\ UNCHANGED <<video_buffer, bufVars, now, events, saving, stop, raw_video, raw_audio,
                   video_encoder, encoded, audio_encoder, vw, aw, main, file, saveLog>>

\* .insert(dts, encoded_frame); the guard is dropped at the end of the statement
SWInsert ==
    /\ Alive
    /\ sw.pc = "insert"
    /\ video_buffer' = VideoBufferInsert(video_buffer, sw.held[1], sw.held[2])
    /\ lock' = Unlock("vbuf")
    /\ main' = Granted("vbuf")
    /\ sw' = [pc |-> "idle", held |-> NoPacket]
    /\ UNCHANGED <<bufVars, now, events, saving, stop, raw_video, raw_audio,
                   video_encoder, encoded, audio_encoder, vw, aw, file, saveLog>>

\* ------------------------------------------------------------------------
\* Command loop (WayCap::run) and ShadowCapMode::on_save / on_shutdown
\* ------------------------------------------------------------------------
\* dropping every guard on_save holds (and its pending lock futures)
ReleaseAll == [l \in SaveLocks |-> IF lock[l] = "save" THEN "free" ELSE lock[l]]

\* `?` on an error: on_save returns, its guards are dropped, run() returns Err
SaveFail(step) ==
    /\ main' = [main EXCEPT !.pc = "failed", !.waiting = {}]
    /\ lock' = ReleaseAll
    /\ saveLog' = Append(saveLog, step)

\* on_save going for its locks without storing saving = true
SaveStart_NoFlag ==
    /\ main.pc = "select"
    /\ events < MaxEvents
    /\ events' = events + 1
    /\ main' = [pc |-> "s_poll", polled |-> 0, waiting |-> {}]
    /\ saveLog' = <<"saving_true">>
    /\ UNCHANGED <<video_buffer, bufVars, now, saving, stop, raw_video, raw_audio,
                   video_encoder, encoded, audio_encoder, lock, vw, aw, sw, file>>

\* a save command is received: on_save stores saving = true
SaveStart ==
    /\ main.pc = "select"
    /\ events < MaxEvents
    /\ events' = events + 1
    /\ saving' = TRUE
    /\ main' = [pc |-> "s_poll", polled |-> 0, waiting |-> {}]
    /\ saveLog' = <<"saving_true">>
    /\ UNCHANGED <<video_buffer, bufVars, now, stop, raw_video, raw_audio,
                   video_encoder, encoded, audio_encoder, lock, vw, aw, sw, file>>

\* tokio::join!(video_encoder.lock(), audio_encoder.lock(), video_buffer.lock()):
\* the first poll polls the three lock futures in this order; each takes its
\* mutex if it is free and queues as a waiter otherwise
SavePollLock ==
    /\ main.pc = "s_poll"
    /\ LET l == LockOrder[main.polled + 1]
           got == lock[l] = "free"
       IN /\ lock' = IF got THEN [lock EXCEPT ![l] = "save"] ELSE lock
          /\ main' = [pc |-> IF main.polled + 1 = Len(LockOrder) THEN "s_locks" ELSE "s_poll",
                      polled |-> main.polled + 1,
                      waiting |-> IF got THEN main.waiting ELSE main.waiting \cup {l}]
    /\ UNCHANGED <<video_buffer, bufVars, now, events, saving, stop, raw_video, raw_audio,
                   video_encoder, encoded, audio_encoder, vw, aw, sw, file, saveLog>>

\* video_lock.drain()?
SaveDrainVideo ==
    /\ main.pc = "s_locks"
    /\ HoldsAll
    /\ \E eof_ok \in BOOLEAN :
          LET r == VaapiDrain(video_encoder, encoded, eof_ok)
          IN /\ video_encoder' = r.enc
             /\ encoded' = r.ring
             /\ IF r.ok
                THEN /\ main' = [main EXCEPT !.pc = "s_drain_a"]
                     /\ saveLog' = Append(saveLog, "drain_video")
                     /\ UNCHANGED lock
                ELSE SaveFail("drain_video_err")
    /\ UNCHANGED <<video_buffer, bufVars, now, events, saving, stop, raw_video, raw_audio,
                   audio_encoder, vw, aw, sw, file>>

\* audio_lock.drain()?
SaveDrainAudio ==
    /\ main.pc = "s_drain_a"
    /\ \E eof_ok \in BOOLEAN :
          LET r == AudioDrain(audio_encoder, eof_ok)
          IN /\ audio_encoder' = r.enc
             /\ IF r.enc.audio_buffer.hung
                THEN /\ main' = [main EXCEPT !.pc = "spin"]
                     /\ UNCHANGED <<lock, saveLog>>
                ELSE IF r.ok
                THEN /\ main' = [main EXCEPT !.pc = "s_mux"]
                     /\ saveLog' = Append(saveLog, "drain_audio")
                     /\ UNCHANGED lock
                ELSE SaveFail("drain_audio_err")
    /\ UNCHANGED <<video_buffer, bufVars, now, events, saving, stop, raw_video, raw_audio,
                   video_encoder, encoded, vw, aw, sw, file>>

\* save_buffer(...)?  lib_ok: whether the mux library calls succeed
SaveMux ==
    /\ main.pc = "s_mux"
    /\ \E lib_ok \in BOOLEAN :
          LET r == save_buffer(video_buffer, audio_encoder.audio_buffer)
          IN IF ~lib_ok \/ r.status = "err"
             THEN /\ SaveFail("mux_err")
                  /\ UNCHANGED file
             ELSE IF r.status = "panic"
             THEN /\ main' = [main EXCEPT !.pc = "panicked"]
                  /\ lock' = ReleaseAll
                  /\ saveLog' = Append(saveLog, "mux_panic")
                  /\ file' = r
             ELSE /\ main' = [main EXCEPT !.pc = "s_reset_v"]
                  /\ saveLog' = Append(saveLog, "mux")
                  /\ file' = r
                  /\ UNCHANGED lock
    /\ UNCHANGED <<video_buffer, bufVars, now, events, saving, stop, raw_video, raw_audio,
                   video_encoder, encoded, audio_encoder, vw, aw, sw>>

\* video_lock.reset()?
SaveResetVideo ==
    /\ main.pc = "s_reset_v"
    /\ \E create_ok \in BOOLEAN :
          LET r == VaapiReset(video_encoder, create_ok)
          IN /\ video_encoder' = r.enc
             /\ IF r.ok
                THEN /\ main' = [main EXCEPT !.pc = "s_reset_b"]
                     /\ saveLog' = Append(saveLog, "reset_video")
                     /\ UNCHANGED lock
                ELSE SaveFail("reset_video_err")
    /\ UNCHANGED <<video_buffer, bufVars, now, events, saving, stop, raw_video, raw_audio,
                   encoded, audio_encoder, vw, aw, sw, file>>

\* video_buffer.reset()
SaveResetBuffer ==
    /\ main.pc = "s_reset_b"
    /\ video_buffer' = VideoBufferReset(video_buffer)
    /\ main' = [main EXCEPT !.pc = "s_reset_a"]
    /\ saveLog' = Append(saveLog, "reset_buffer")
    /\ UNCHANGED <<bufVars, now, events, saving, stop, raw_video, raw_audio,
                   video_encoder, encoded, audio_encoder, lock, vw, aw, sw, file>>

\* audio_lock.reset_encoder(FfmpegAudioEncoder::new_opus)?
SaveResetAudio ==
    /\ main.pc = "s_reset_a"
    /\ \E create_ok \in BOOLEAN :
          LET r == AudioResetEncoder(audio_encoder, create_ok)
          IN /\ audio_encoder' = r.enc
             /\ IF r.ok
                THEN /\ main' = [main EXCEPT !.pc = "s_release"]
                     /\ saveLog' = Append(saveLog, "reset_audio")
                     /\ UNCHANGED lock
                ELSE SaveFail("reset_audio_err")
    /\ UNCHANGED <<video_buffer, bufVars, now, events, saving, stop, raw_video, raw_audio,
                   video_encoder, encoded, vw, aw, sw, file>>

\* the three guards go out of scope
SaveRelease ==
    /\ main.pc = "s_release"
    /\ lock' = ReleaseAll
    /\ main' = [main EXCEPT !.pc = "s_unset"]
    /\ saveLog' = Append(saveLog, "release")
    /\ UNCHANGED <<video_buffer, bufVars, now, events, saving, stop, raw_video, raw_audio,
                   video_encoder, encoded, audio_encoder, vw, aw, sw, file>>

\* ctx.saving.store(false); on_save returns Ok
SaveUnset ==
    /\ main.pc = "s_unset"
    /\ saving' = FALSE
    /\ main' = [main EXCEPT !.pc = "select"]
    /\ saveLog' = Append(saveLog, "saving_false")
    /\ UNCHANGED <<video_buffer, bufVars, now, events, stop, raw_video, raw_audio,
                   video_encoder, encoded, audio_encoder, lock, vw, aw, sw, file>>

\* ctrl-c: on_shutdown stores saving and stop and drops its encoder Arcs; the
\* video encoder's Arc is the last one when the video worker has panicked,
\* and Drop runs here
OnShutdown ==
    /\ main.pc = "select"
    /\ saving' = TRUE
    /\ stop' = TRUE
    /\ main' = [main EXCEPT !.pc = "sd_term"]
    /\ LET d == VaapiDrop(video_encoder, encoded, TRUE)
       IN IF vw.pc = "panicked"
          THEN video_encoder' = d.enc /\ encoded' = d.ring
          ELSE UNCHANGED <<video_encoder, encoded>>
    /\ UNCHANGED <<video_buffer, bufVars, now, events, raw_video, raw_audio,
                   audio_encoder, lock, vw, aw, sw, file, saveLog>>

\* run(): Terminate is sent to both pipewire threads, the dbus connection closed
RunTerminate ==
    /\ main.pc = "sd_term"
    /\ main' = [main EXCEPT !.pc = "sd_join"]
    /\ UNCHANGED <<video_buffer, bufVars, now, events, saving, stop, raw_video, raw_audio,
                   video_encoder, encoded, audio_encoder, lock, vw, aw, sw, file, saveLog>>

\* run(): every join handle is joined; joining a panicked thread returns an
\* error, which is logged
RunJoin ==
    /\ main.pc = "sd_join"
    /\ vw.pc \in {"done", "panicked"} /\ aw.pc = "done" /\ sw.pc = "done"
    /\ main' = [main EXCEPT !.pc = "end"]
    /\ UNCHANGED <<video_buffer, bufVars, now, events, saving, stop, raw_video, raw_audio,
                   video_encoder, encoded, audio_encoder, lock, vw, aw, sw, file, saveLog>>

Producers == VideoCallback \/ AudioCallback
VideoWorker == VWLoop \/ VWPop \/ VWLock \/ VWProcess
AudioWorker == AWLoop \/ AWPop \/ AWLock \/ AWProcess
ShadowWorker == SWLoop \/ SWPop \/ SWLock \/ SWInsert
OnSave == SaveStart \/ SavePollLock \/ SaveDrainVideo \/ SaveDrainAudio \/ SaveMux
             \/ SaveResetVideo \/ SaveResetBuffer \/ SaveResetAudio \/ SaveRelease
             \/ SaveUnset
Shutdown == OnShutdown \/ RunTerminate \/ RunJoin

Init ==
    /\ SysInit
    /\ UnitInit

Next == Producers \/ VideoWorker \/ AudioWorker \/ ShadowWorker \/ OnSave \/ Shutdown

Spec == Init /\ [][Next]_vars

\* Scheduling: every thread that can take a step eventually takes one.  The
\* environment (capture callbacks, save commands, ctrl-c) is not obliged to act.
SaveSteps == SavePollLock \/ SaveDrainVideo \/ SaveDrainAudio \/ SaveMux \/ SaveResetVideo
                \/ SaveResetBuffer \/ SaveResetAudio \/ SaveRelease \/ SaveUnset
Fairness ==
    /\ WF_vars(VideoWorker)
    /\ WF_vars(AudioWorker)
    /\ WF_vars(ShadowWorker)
    /\ WF_vars(SaveSteps)
    /\ WF_vars(RunTerminate \/ RunJoin)

SpecFair == Init /\ [][Next]_vars /\ Fairness

\* ------------------------------------------------------------------------
\* The command loop with a ctrl-c arriving while on_save runs.  run() awaits
\* on_save inside the select! arm, so no ctrl_c() future exists during a
\* save; the loop makes a new one when it comes back to select!.  Whether
\* that future completes for a signal delivered before it was made is the
\* signal library's choice: "kept" or "lost".
\* ------------------------------------------------------------------------
InSave == main.pc \in {"s_poll", "s_locks", "s_drain_a", "s_mux", "s_reset_v", "s_reset_b",
                       "s_reset_a", "s_release", "s_unset"}

\* SIGINT is delivered to the process during on_save
CtrlCDuringSave ==
    /\ InSave
    /\ ctrl_c = "none"
    /\ \E kept \in BOOLEAN : ctrl_c' = IF kept THEN "kept" ELSE "lost"
    /\ UNCHANGED <<video_buffer, bufOp, bufCalls, bufDts, bufFresh, bufPrev, stream, encOp,
                   encCalls, encSamples, encFrame, cfg, abufOp, abufCalls, abufTime, sysVars>>

\* back in select!, the new ctrl_c() future completes for the signal kept
ShutdownOnSignal == ctrl_c = "kept" /\ OnShutdown

CtrlCNext == Next \/ CtrlCDuringSave \/ ShutdownOnSignal

SpecCtrlC == Init /\ [][CtrlCNext]_vars /\ Fairness /\ WF_vars(ShutdownOnSignal)

\* ------------------------------------------------------------------------
\* The video worker alone, fed by callbacks that arrive around the frame
\* interval: together, just inside the interval, exactly at it, or later.
\* ------------------------------------------------------------------------
ThrottleGaps == {0, FRAME_INTERVAL - 1, FRAME_INTERVAL, 2 * FRAME_INTERVAL}

VideoCallbackNear ==
    /\ PwRunning
    /\ events < MaxEvents
    /\ \E gap \in ThrottleGaps : now' = now + gap
    /\ raw_video' = IF saving THEN raw_video
                    ELSE TryPush(raw_video, RAW_VIDEO_CAP,
                                 [timestamp |-> now', samples |-> 0])
    /\ events' = events + 1
    /\ UNCHANGED <<video_buffer, bufVars, saving, stop, raw_audio, video_encoder, encoded,
                   audio_encoder, lock, vw, aw, sw, main, file, saveLog>>

ThrottleNext == VideoCallbackNear \/ VWPop \/ VWLock \/ VWProcess

SpecThrottle == Init /\ [][ThrottleNext]_vars

\* ------------------------------------------------------------------------
\* The pipeline with each thread running its step to completion: a captured
\* video frame is encoded at once, a save runs from its first lock to its
\* return without another thread in between.  Packets still travel through
\* the raw audio ring and the encoded-packet ring.  Every run is a run of
\* Spec with the intermediate thread positions left out.
\* ------------------------------------------------------------------------
SeqReady == main.pc = "select" /\ ~audio_encoder.audio_buffer.hung

\* video callback, then the video worker's pop, throttle and process
SeqVideoFrame ==
    /\ SeqReady
    /\ events < MaxSeqEvents
    /\ \E d \in 0..1, key \in BOOLEAN :
          LET current_time == now + d * HalfWindow
              r == VaapiProcess(video_encoder, encoded, current_time, key, TRUE, TRUE, TRUE)
          IN /\ now' = current_time
             /\ IF current_time < vw.last_timestamp + FRAME_INTERVAL
                THEN UNCHANGED <<video_encoder, encoded, vw>>
                ELSE /\ video_encoder' = r.enc
                     /\ encoded' = r.ring
                     /\ vw' = [vw EXCEPT !.last_timestamp = current_time]
    /\ events' = events + 1
    /\ UNCHANGED <<video_buffer, bufVars, saving, stop, raw_video, raw_audio,
                   audio_encoder, lock, aw, sw, main, file, saveLog>>

\* the shadow worker's pop, lock and insert
SeqShadowInsert ==
    /\ SeqReady
    /\ encoded # <<>>
    /\ encoded' = Tail(encoded)
    /\ video_buffer' = VideoBufferInsert(video_buffer, Head(encoded)[1], Head(encoded)[2])
    /\ UNCHANGED <<bufVars, now, events, saving, stop, raw_video, raw_audio,
                   video_encoder, audio_encoder, lock, vw, aw, sw, main, file, saveLog>>

\* audio callback
SeqAudioCapture ==
    /\ SeqReady
    /\ events < MaxSeqEvents
    /\ \E d \in 0..1 :
          /\ now' = now + d * HalfWindow
          /\ raw_audio' = TryPush(raw_audio, RAW_AUDIO_CAP,
                                  [timestamp |-> now', samples |-> RAW_SAMPLES])
    /\ events' = events + 1
    /\ UNCHANGED <<video_buffer, bufVars, saving, stop, raw_video, video_encoder, encoded,
                   audio_encoder, lock, vw, aw, sw, main, file, saveLog>>

\* the audio worker's pop, lock and process
SeqAudioProcess ==
    /\ SeqReady
    /\ raw_audio # <<>>
    /\ raw_audio' = Tail(raw_audio)
    /\ \E emits \in [1..MaxChunks -> BOOLEAN] :
          audio_encoder' = AudioProcess(audio_encoder, Head(raw_audio), emits).enc
    /\ UNCHANGED <<video_buffer, bufVars, now, events, saving, stop, raw_video,
                   video_encoder, encoded, lock, vw, aw, sw, main, file, saveLog>>

\* on_save from saving = true to saving = false, every library call succeeding
SeqSave ==
    /\ SeqReady
    /\ events < MaxSeqEvents
    /\ events' = events + 1
    /\ LET dv == VaapiDrain(video_encoder, encoded, TRUE)
           da == AudioDrain(audio_encoder, TRUE)
           r == save_buffer(video_buffer, da.enc.audio_buffer)
       IN /\ encoded' = dv.ring
          /\ file' = IF da.enc.audio_buffer.hung THEN file ELSE r
          /\ IF da.enc.audio_buffer.hung
             THEN /\ main' = [main EXCEPT !.pc = "spin"]
                  /\ saving' = TRUE
                  /\ video_encoder' = dv.enc
                  /\ audio_encoder' = da.enc
                  /\ UNCHANGED video_buffer
             ELSE IF r.status # "ok"
             THEN /\ main' = [main EXCEPT !.pc = IF r.status = "err" THEN "failed"
                                                ELSE "panicked"]
                  /\ saving' = TRUE
                  /\ video_encoder' = dv.enc
                  /\ audio_encoder' = da.enc
                  /\ UNCHANGED video_buffer
             ELSE /\ video_encoder' = VaapiReset(dv.enc, TRUE).enc
                  /\ video_buffer' = VideoBufferReset(video_buffer)
                  /\ audio_encoder' = AudioResetEncoder(da.enc, TRUE).enc
                  /\ saving' = FALSE
                  /\ UNCHANGED main
    /\ UNCHANGED <<bufVars, now, stop, raw_video, raw_audio, lock, vw, aw, sw, saveLog>>

SeqNext == SeqVideoFrame \/ SeqShadowInsert \/ SeqAudioCapture \/ SeqAudioProcess \/ SeqSave

SpecSeq == Init /\ [][SeqNext]_vars

\* ------------------------------------------------------------------------
\* Stand-alone AudioEncoder, driven as audio_encoder_tests.rs drives it: any
\* sequence of process / drain / drop_encoder / reset_encoder calls.  The
\* raw frame of the i-th accepted call carries timestamp i.
\* ------------------------------------------------------------------------
\* sample counts of the raw frames handed in: odd, one frame, two frames
EncSampleCounts == {RAW_SAMPLES - 1, RAW_SAMPLES, 2 * RAW_SAMPLES}
\* encoder frames one call can complete: the leftover buffer keeps what a
\* failed call did not send
EncMaxChunks == (MaxEncFrames * RAW_SAMPLES) \div FRAME_SIZE + 1
\* what receive_packet answers during one call: the codec holds back the
\* first k frames it is sent and hands out one packet per frame after that
EncEmits == {[i \in 1..EncMaxChunks |-> i > k] : k \in 0..MaxLatency}

encRest == <<video_buffer, bufOp, bufCalls, bufDts, bufFresh, bufPrev, stream, cfg, abufOp, abufCalls, abufTime, ctrl_c, now, events, saving, stop,
             raw_video, raw_audio, video_encoder, encoded, lock, vw, aw, sw, main,
             file, saveLog>>

\* audio_encoder.process(&mut raw_frame); as in the orchestrator, no frame is
\* handed in between a drain and the reset or drop that follows it
EncProcess ==
    /\ ~audio_encoder.eof
    /\ \E samples \in EncSampleCounts, emits \in EncEmits :
          LET raw_frame == [timestamp |-> encCalls + 1, samples |-> samples]
              r == AudioProcess(audio_encoder, raw_frame, emits)
              taken == audio_encoder.encoder /\ samples % CHANNELS = 0
          IN /\ encSamples + samples <= MaxEncFrames * RAW_SAMPLES
             /\ Len(r.enc.pending) <= MaxLatency
             /\ audio_encoder' = r.enc
             /\ encFrame' = [timestamp |-> raw_frame.timestamp, samples |-> samples,
                             boosted |-> r.boosted]
             /\ encOp' = IF r.ok THEN "process" ELSE "process_err"
             /\ encCalls' = IF taken THEN encCalls + 1 ELSE encCalls
             /\ encSamples' = IF taken THEN encSamples + samples ELSE encSamples
    /\ UNCHANGED encRest

\* audio_encoder.drain()
EncDrain ==
    /\ \E eof_ok \in BOOLEAN :
          LET r == AudioDrain(audio_encoder, eof_ok)
          IN /\ audio_encoder' = r.enc
             /\ encOp' = IF r.ok THEN "drain" ELSE "drain_err"
    /\ UNCHANGED <<encCalls, encSamples, encFrame, encRest>>

\* audio_encoder.drop_encoder()
EncDropEncoder ==
    /\ audio_encoder' = AudioDropEncoder(audio_encoder)
    /\ encOp' = "drop"
    /\ UNCHANGED <<encCalls, encSamples, encFrame, encRest>>

\* audio_encoder.reset_encoder(factory)
EncReset ==
    /\ audio_encoder.id <= MaxEncResets
    /\ \E create_ok \in BOOLEAN :
          LET r == AudioResetEncoder(audio_encoder, create_ok)
          IN /\ audio_encoder' = r.enc
             /\ encOp' = IF r.ok THEN "reset" ELSE "reset_err"
    /\ UNCHANGED <<encCalls, encSamples, encFrame, encRest>>

EncNext == EncProcess \/ EncDrain \/ EncDropEncoder \/ EncReset

SpecAudio == Init /\ [][EncNext]_vars

\* ------------------------------------------------------------------------
\* Stand-alone video buffer under steady input, as
\* test_video_buffer_stress_realistic feeds it: one frame every interval, a
\* keyframe every gop frames; with bframes, the PTS pattern of that test.
\* A scripted stream is the list of insert calls of one of the other tests,
\* each <<timestamp, pts, is_keyframe>>.
\* ------------------------------------------------------------------------
TestStream(bframes) ==
    [window |-> TEST_WINDOW, interval |-> TEST_FRAME_DURATION, gop |-> TEST_GOP,
     bframes |-> bframes, script |-> <<>>]

\* test_video_buffer_no_trim
NoTrimTest ==
    [window |-> SMALL_TEST_WINDOW, interval |-> 0, gop |-> 0, bframes |-> FALSE,
     script |-> << <<1, 1, TRUE>>, <<2, 3, FALSE>>, <<3, 6, TRUE>> >>]

\* test_video_buffer_trimming
TrimmingTest ==
    [window |-> SMALL_TEST_WINDOW, interval |-> 0, gop |-> 0, bframes |-> FALSE,
     script |-> << <<0, 0, TRUE>>, <<1, 3, FALSE>>, <<2, 5, FALSE>>, <<3, 7, TRUE>>,
                   <<4, 9, FALSE>>, <<5, 11, FALSE>>, <<6, 13, TRUE>>, <<7, 15, FALSE>>,
                   <<8, 17, FALSE>>, <<9, 19, TRUE>> >>]

SteadyStreams ==
    {[window |-> ActualMax, interval |-> ActualMax \div n, gop |-> g, bframes |-> FALSE,
      script |-> <<>>] : n \in 2..MaxSteadyRate, g \in 1..MaxSteadyGop}
      \cup {TestStream(b) : b \in BOOLEAN}
      \cup {NoTrimTest, TrimmingTest}

SteadyInit ==
    /\ PipelineInit
    /\ CallsInit
    /\ cfg = NoConfig
    /\ \E c \in SteadyStreams :
          /\ c.gop * c.interval < c.window \/ c.script # <<>>
          /\ stream = c
          /\ video_buffer = VideoBufferNew(c.window)
          /\ bufPrev = VideoBufferNew(c.window)

SteadyInsert ==
    /\ stream.script = <<>>
    /\ bufCalls < TEST_SECONDS * TEST_FPS
    /\ LET frames_inserted == bufCalls
           frame_in_second == bufCalls % TEST_FPS
           is_keyframe == frames_inserted % stream.gop = 0
           dts == frames_inserted * stream.interval
           pts_offset == IF stream.bframes /\ ~is_keyframe /\ frame_in_second % 4 = 2
                         THEN stream.interval * 2
                         ELSE IF stream.bframes /\ ~is_keyframe /\ frame_in_second % 4 = 3
                         THEN -stream.interval
                         ELSE 0
           current_pts == dts + pts_offset
           frame == EncodedVideoFrame(0, current_pts, current_pts, is_keyframe)
       IN /\ video_buffer' = VideoBufferInsert(video_buffer, dts, frame)
          /\ bufPrev' = video_buffer
          /\ bufDts' = dts
    /\ bufOp' = "insert"
    /\ bufCalls' = bufCalls + 1
    /\ UNCHANGED <<bufFresh, stream, unitVars, sysVars>>

\* the next insert call of a scripted test
ScriptInsert ==
    /\ bufCalls < Len(stream.script)
    /\ LET call == stream.script[bufCalls + 1]
           frame == EncodedVideoFrame(1, call[2], call[2], call[3])
       IN /\ video_buffer' = VideoBufferInsert(video_buffer, call[1], frame)
          /\ bufPrev' = video_buffer
          /\ bufDts' = call[1]
    /\ bufOp' = "insert"
    /\ bufCalls' = bufCalls + 1
    /\ UNCHANGED <<bufFresh, stream, unitVars, sysVars>>

SteadyNext == SteadyInsert \/ ScriptInsert

SpecSteady == SteadyInit /\ [][SteadyNext]_vars

\* ------------------------------------------------------------------------
\* Stand-alone audio buffer: any sequence of insert / insert_capture_time /
\* reset calls, frame keys increasing as the encoder's PTS does and capture
\* times non-decreasing.  A call that does not return ends the sequence.
\* ------------------------------------------------------------------------
abufRest == <<video_buffer, bufOp, bufCalls, bufDts, bufFresh, bufPrev, stream, encOp, encCalls, encSamples,
              encFrame, cfg, ctrl_c, now, events, saving, stop, raw_video, raw_audio,
              video_encoder, encoded, lock, vw, aw, sw, main, file, saveLog>>

ABufReady == abufCalls < MaxABufCalls /\ ~audio_encoder.audio_buffer.hung

ABufInsert ==
    /\ ABufReady
    /\ audio_encoder' = [audio_encoder EXCEPT !.audio_buffer =
                             AudioBufferInsert(audio_encoder.audio_buffer, abufCalls, 1)]
    /\ abufOp' = "insert"
    /\ abufCalls' = abufCalls + 1
    /\ UNCHANGED <<abufTime, abufRest>>

ABufInsertCaptureTime ==
    /\ ABufReady
    /\ \E gap \in 0..MaxGap :
          LET time == abufTime + gap * HalfWindow
          IN /\ audio_encoder' = [audio_encoder EXCEPT !.audio_buffer =
                                      AudioBufferInsertCaptureTime(
                                          audio_encoder.audio_buffer, time)]
             /\ abufTime' = time
    /\ abufOp' = "capture_time"
    /\ abufCalls' = abufCalls + 1
    /\ UNCHANGED abufRest

ABufReset ==
    /\ ABufReady
    /\ abufOp # "new"
    /\ audio_encoder' = [audio_encoder EXCEPT !.audio_buffer =
                             AudioBufferReset(audio_encoder.audio_buffer)]
    /\ abufOp' = "reset"
    /\ abufCalls' = abufCalls + 1
    /\ UNCHANGED <<abufTime, abufRest>>

ABufNext == ABufInsert \/ ABufInsertCaptureTime \/ ABufReset

SpecABuf == Init /\ [][ABufNext]_vars

\* ------------------------------------------------------------------------
\* Audio buffer fed in pairs, as the buffer tests do: insert(pts, data) and
\* then insert_capture_time(t), the capture times increasing.  stream.pairs
\* lists the pairs <<pts, t>> of the run.
\* ------------------------------------------------------------------------
\* test_audio_buffer_trimming
AudioTrimmingTest ==
    [window |-> SMALL_TEST_WINDOW,
     pairs |-> << <<1, 1>>, <<3, 3>>, <<5, 5>>, <<7, 7>>, <<9, 9>>, <<11, 11>>,
                   <<13, 13>>, <<15, 15>>, <<17, 17>>, <<19, 19>> >>]

RECURSIVE SumGaps(_, _)
SumGaps(gaps, i) == IF i = 0 THEN 0 ELSE gaps[i] + SumGaps(gaps, i - 1)

PairStreams ==
    {[window |-> ActualMax,
      pairs |-> [i \in 1..MaxPairs |-> <<(i - 1) * FRAME_SIZE, SumGaps(gaps, i) * HalfWindow>>]] :
         gaps \in [1..MaxPairs -> 1..MaxGap]}
      \cup {AudioTrimmingTest}

\* ShadowCaptureAudioBuffer::new(window)
PairsNew ==
    /\ stream = NoStream
    /\ abufOp = "new"
    /\ \E c \in PairStreams :
          /\ stream' = c
          /\ audio_encoder' = [audio_encoder EXCEPT !.audio_buffer = AudioBufferNew(c.window)]
    /\ UNCHANGED <<video_buffer, bufOp, bufCalls, bufDts, bufFresh, bufPrev, encOp, encCalls,
                   encSamples, encFrame, cfg, abufOp, abufCalls, abufTime, ctrl_c, now, events,
                   saving, stop, raw_video, raw_audio, video_encoder, encoded, lock, vw,
                   aw, sw, main, file, saveLog>>

\* audio_buffer.insert(pts, data) of the next pair
PairInsert ==
    /\ stream # NoStream
    /\ abufOp \in {"new", "capture_time"}
    /\ abufCalls < 2 * Len(stream.pairs)
    /\ ~audio_encoder.audio_buffer.hung
    /\ LET call == stream.pairs[(abufCalls \div 2) + 1]
       IN audio_encoder' = [audio_encoder EXCEPT !.audio_buffer =
                                AudioBufferInsert(audio_encoder.audio_buffer, call[1], 1)]
    /\ abufOp' = "insert"
    /\ abufCalls' = abufCalls + 1
    /\ UNCHANGED <<abufTime, abufRest>>

\* audio_buffer.insert_capture_time(t) of the same pair
PairInsertCaptureTime ==
    /\ stream # NoStream
    /\ abufOp = "insert"
    /\ ~audio_encoder.audio_buffer.hung
    /\ LET call == stream.pairs[((abufCalls - 1) \div 2) + 1]
       IN /\ audio_encoder' = [audio_encoder EXCEPT !.audio_buffer =
                                   AudioBufferInsertCaptureTime(
                                       audio_encoder.audio_buffer, call[2])]
          /\ abufTime' = call[2]
    /\ abufOp' = "capture_time"
    /\ abufCalls' = abufCalls + 1
    /\ UNCHANGED abufRest

PairsNext == PairsNew \/ PairInsert \/ PairInsertCaptureTime

SpecPairs == Init /\ [][PairsNext]_vars

\* ------------------------------------------------------------------------
\* Stand-alone VaapiEncoder with nobody reading its encoded-packet ring: any
\* sequence of process calls, one frame per frame interval and a keyframe
\* every TEST_GOP frames, ended by a drain, send_frame succeeding.  encOp is
\* the outcome of the last call.
\* ------------------------------------------------------------------------
RingCalls == ENCODED_CAP + MaxEvents

\* video_encoder.process(&raw_frame)
VEncProcess ==
    /\ encCalls < RingCalls
    /\ encOp \in {"new", "process", "process_err"}
    /\ \E emit \in BOOLEAN :
          LET r == VaapiProcess(video_encoder, encoded, (encCalls + 1) * FRAME_INTERVAL,
                                encCalls % TEST_GOP = 0, emit, TRUE, TRUE)
          IN /\ Len(r.enc.pending) <= MaxLatency
             /\ video_encoder' = r.enc
             /\ encoded' = r.ring
             /\ encOp' = IF r.panic THEN "process_panic"
                         ELSE IF r.ok THEN "process" ELSE "process_err"
    /\ encCalls' = encCalls + 1
    /\ UNCHANGED <<video_buffer, bufOp, bufCalls, bufDts, bufFresh, bufPrev, stream,
                   encSamples, encFrame, cfg, abufOp, abufCalls, abufTime, ctrl_c, now, events,
                   saving, stop, raw_video, raw_audio, audio_encoder, lock, vw, aw, sw,
                   main, file, saveLog>>

\* video_encoder.drain()
VEncDrain ==
    /\ encOp \in {"process", "process_err"}
    /\ \E eof_ok \in BOOLEAN :
          LET r == VaapiDrain(video_encoder, encoded, eof_ok)
          IN /\ video_encoder' = r.enc
             /\ encoded' = r.ring
             /\ encOp' = IF r.ok THEN "drain" ELSE "drain_err"
    /\ UNCHANGED <<video_buffer, bufOp, bufCalls, bufDts, bufFresh, bufPrev, stream,
                   encCalls, encSamples, encFrame, cfg, abufOp, abufCalls, abufTime, ctrl_c, now,
                   events, saving, stop, raw_video, raw_audio, audio_encoder, lock, vw, aw,
                   sw, main, file, saveLog>>

RingNext == VEncProcess \/ VEncDrain

SpecRing == Init /\ [][RingNext]_vars

\* ------------------------------------------------------------------------
\* save_buffer on buffers filled call by call.  A stream lists the video
\* inserts <<dts, pts, is_keyframe>> (DTS increasing, PTS at or after the
\* DTS) and the audio pairs <<pts, t>>; save_buffer runs once both buffers
\* have taken all of their input.
\* ------------------------------------------------------------------------
MuxVideoScripts ==
    UNION {{[i \in 1..n |-> <<SumGaps([j \in 1..n |-> f[j][1]], i) * HalfWindow,
                              (SumGaps([j \in 1..n |-> f[j][1]], i) + f[i][2]) * HalfWindow,
                              f[i][3]>>] :
               f \in [1..n -> (1..2) \X (0..1) \X BOOLEAN]} : n \in 1..MaxMuxFrames}

MuxAudioPairs ==
    {<<>>} \cup {<< <<0, k * HalfWindow>> >> : k \in 0..MaxGap}

MuxStreams ==
    {[window |-> ActualMax, script |-> v, pairs |-> a] :
        v \in MuxVideoScripts, a \in MuxAudioPairs}

\* ShadowCaptureBuffer::new(window), ShadowCaptureAudioBuffer::new(window)
MuxNew ==
    /\ stream = NoStream
    /\ bufOp = "new" /\ abufOp = "new"
    /\ \E c \in MuxStreams :
          /\ stream' = c
          /\ video_buffer' = VideoBufferNew(c.window)
          /\ audio_encoder' = [audio_encoder EXCEPT !.audio_buffer = AudioBufferNew(c.window)]
    /\ UNCHANGED <<bufOp, bufCalls, bufDts, bufFresh, bufPrev, encOp, encCalls,
                   encSamples, encFrame, cfg, abufOp, abufCalls, abufTime, ctrl_c, now, events,
                   saving, stop, raw_video, raw_audio, video_encoder, encoded, lock, vw,
                   aw, sw, main, file, saveLog>>

\* save_buffer(filename, &video_buffer, &audio_buffer, ...)
MuxSave ==
    /\ stream # NoStream
    /\ file = NoFile
    /\ bufCalls = Len(stream.script)
    /\ abufCalls = 2 * Len(stream.pairs)
    /\ ~audio_encoder.audio_buffer.hung
    /\ file' = save_buffer(video_buffer, audio_encoder.audio_buffer)
    /\ UNCHANGED <<video_buffer, bufVars, now, events, saving, stop, raw_video, raw_audio,
                   video_encoder, encoded, audio_encoder, lock, vw, aw, sw, main, saveLog>>

MuxNext == MuxNew \/ ScriptInsert \/ PairInsert \/ PairInsertCaptureTime \/ MuxSave

SpecMux == Init /\ [][MuxNext]_vars

\* ------------------------------------------------------------------------
\* Start-up: ShadowCapMode::new on a configured max_seconds (a u32)
\* ------------------------------------------------------------------------
CfgSeconds ==
    {k * (MAX_SECONDS \div MaxCfgSteps) : k \in 0..(MaxCfgSteps + 3)}
        \cup {MAX_SECONDS - 1, MAX_SECONDS, MAX_SECONDS + 1}

CfgInit ==
    /\ SysInit
    /\ StandAloneInit
    /\ cfg \in {[NoConfig EXCEPT !.max_seconds = s] : s \in CfgSeconds}

CfgNew ==
    /\ cfg.status = "none"
    /\ \E overflow_checks \in BOOLEAN :
          cfg' = ShadowCapModeNew(cfg.max_seconds, overflow_checks)
    /\ UNCHANGED <<video_buffer, bufOp, bufCalls, bufDts, bufFresh, bufPrev, stream, encOp,
                   encCalls, encSamples, encFrame, abufOp, abufCalls, abufTime, ctrl_c, sysVars>>

CfgNext == CfgNew

SpecCfg == CfgInit /\ [][CfgNext]_vars

\* ------------------------------------------------------------------------
\* Properties
\* ------------------------------------------------------------------------
\* C1: after every insert, fewer than two keyframe DTS values are recorded
\* or the PTS span of the stored frames is below the window.
C1_WindowAfterInsert ==
    bufOp = "insert" =>
        \/ Len(video_buffer.key_frame_keys) < 2
        \/ StoredSpan(video_buffer) < video_buffer.max_time

\* C2: whenever the video buffer is non-empty, the smallest DTS key stored
\* is the DTS of a keyframe.
C2_StartsWithKeyframe ==
    DOMAIN video_buffer.frames # {} =>
        video_buffer.frames[SetMin(DOMAIN video_buffer.frames)].is_keyframe

\* on_save is between obtaining its last lock and dropping its guards
SaveHolding ==
    \/ main.pc = "s_locks" /\ HoldsAll
    \/ main.pc \in {"s_drain_a", "s_mux", "s_reset_v", "s_reset_b", "s_reset_a", "s_release"}

\* C3: while on_save holds its locks, no step of another thread changes the
\* video buffer, the audio buffer or either encoder, and no worker is inside
\* process() or insert().
C3_SaveAtomic ==
    [][SaveHolding /\ main'.pc = main.pc =>
          /\ video_buffer' = video_buffer
          /\ audio_encoder' = audio_encoder
          /\ video_encoder' = video_encoder
          /\ vw.pc # "process" /\ aw.pc # "process" /\ sw.pc # "insert"]_vars

\* a worker waits with a packet in hand while on_save holds every lock
C3_Witness == SaveHolding /\ main.pc = "s_mux" /\ sw.pc = "lock" /\ aw.pc = "lock"

SaveOrder ==
    <<"saving_true", "drain_video", "drain_audio", "mux", "reset_video", "reset_buffer",
      "reset_audio", "release", "saving_false">>

\* C4: on_save holds a lock only while saving is true, and a save that
\* returns Ok has stored saving = true, drained the video then the audio
\* encoder, run the muxer, reset the video encoder, the video buffer and the
\* audio encoder, released its locks and stored saving = false, in this order.
C4_SaveStepOrder ==
    /\ (\E l \in SaveLocks : lock[l] = "save") => saving
    /\ (main.pc = "select" /\ saveLog # <<>>) => saveLog = SaveOrder
    /\ (saveLog # <<>> /\ main.pc \notin {"failed", "panicked", "spin"}) =>
          \E n \in 1..Len(SaveOrder) : saveLog = SubSeq(SaveOrder, 1, n)

\* a save has returned Ok and written a file
C4_Witness == main.pc = "select" /\ saveLog = SaveOrder /\ file.status = "ok" /\ ~saving

\* C5: when the muxer is invoked, no packet the video encoder has emitted is
\* still in the encoded-packet queue or in the shadow worker's hand.
C5_MuxSeesEveryPacket ==
    main.pc = "s_mux" => (encoded = <<>> /\ sw.pc = "idle")

\* C6: after a save that failed in a drain or in the muxer, saving is false
\* again and both encoders have been reset.
C6_FailedSaveResumes ==
    (main.pc = "failed" /\ saveLog[Len(saveLog)] \in {"drain_video_err", "drain_audio_err", "mux_err"})
        => (~saving /\ ~video_encoder.eof /\ ~audio_encoder.eof)

\* a thread is inside the audio buffer's trim loop, which no longer ends
Spinning == aw.pc = "spin" \/ main.pc = "spin"
Workers == {"vw", "aw", "sw"}
OneLockPerWorker == \A w \in Workers : Cardinality({l \in SaveLocks : lock[l] = w}) <= 1
NoneHeldBySave == \A l \in SaveLocks : lock[l] # "save"

C8_ShutdownTerminates ==
    /\ (stop ~> main.pc = "end")
    /\ [][stop => file' = file]_vars

\* C9: the first video packet of every written file has PTS 0 and is a keyframe.
C9_FirstVideoPacket ==
    (file.status = "ok" /\ file.video # <<>>) =>
        (file.video[1].pts = 0 /\ file.video[1].is_keyframe)

\* index of the first audio frame read whose own capture timestamp is not
\* below base, 0 when there is none
FirstAudioAtOrAfter(keys, caps, base) ==
    LET n == Min2(Len(keys), Len(caps))
        S == {i \in 1..n : caps[i] >= base}
    IN IF S = {} THEN 0 ELSE SetMin(S)

\* C10: the audio frames are paired with their own capture timestamps; when
\* the first frame whose capture timestamp is >= video_base_pts is not beyond
\* the newest written video PTS, it is the first audio packet written, with
\* PTS = DTS = 0, and every written audio packet carries its pts_samples
\* minus that frame's.
C10_AudioStart ==
    (file.status = "ok" /\ file.video # <<>>) =>
        LET j == FirstAudioAtOrAfter(file.read_keys, file.read_caps, file.first_pts_offset)
        IN (j # 0 /\ file.read_caps[j] <= file.newest_video_pts) =>
              /\ file.audio # <<>>
              /\ file.audio[1].src_pts = file.read_keys[j]
              /\ file.audio[1].pts = 0 /\ file.audio[1].dts = 0
              /\ \A k \in 1..Len(file.audio) :
                    file.audio[k].pts = file.audio[k].src_pts - file.read_keys[j]

\* position of an audio frame key among the frame keys the muxer read
KeyPos(keys, x) == CHOOSE i \in 1..Len(keys) : keys[i] = x

\* C11: every audio packet written has a capture timestamp (the one the muxer
\* read for it, and the one stored at the frame's own position) that is not
\* beyond the newest written video PTS, and no audio frame that follows a
\* frame whose capture timestamp is beyond it is written.
C11_AudioClipped ==
    \A k \in 1..Len(file.audio) :
        LET p == KeyPos(file.read_keys, file.audio[k].src_pts)
        IN /\ file.audio[k].capture <= file.newest_video_pts
           /\ p <= Len(file.read_caps)
           /\ file.read_caps[p] <= file.newest_video_pts
           /\ \A i \in 1..p : file.read_caps[i] <= file.newest_video_pts

\* a file with audio written, the audio cut short at the newest video PTS
C11_Witness ==
    /\ file.status = "ok"
    /\ file.audio # <<>>
    /\ Len(file.audio) < Len(file.read_keys)
    /\ file.read_caps[Len(file.audio) + 1] > file.newest_video_pts

\* allowed distance between the starts of the two streams, in microseconds
StartTolerance == 20000

\* C12: in every written file with video and audio packets, the capture
\* timestamp of the first written audio frame and the original PTS of the
\* first written video frame differ by at most one frame interval.
C12_StartAligned ==
    (file.status = "ok" /\ file.video # <<>> /\ file.audio # <<>>) =>
        /\ file.audio[1].capture - file.first_pts_offset <= StartTolerance
        /\ file.first_pts_offset - file.audio[1].capture <= StartTolerance

\* C13: whenever no call on the audio encoder is in progress, the audio
\* buffer stores as many frames as capture timestamps.
C13_AudioLockStep ==
    ~audio_encoder.audio_buffer.hung =>
        Cardinality(DOMAIN audio_encoder.audio_buffer.frames)
            = Len(audio_encoder.audio_buffer.capture_times)

\* frames the audio encoder has taken: those stored plus those the codec holds
EncFramesSent ==
    Cardinality(DOMAIN audio_encoder.audio_buffer.frames) + Len(audio_encoder.pending)

\* only process calls have been made on the audio encoder since construction
OnlyProcessCalls == audio_encoder.encoder /\ audio_encoder.id = 1 /\ ~audio_encoder.eof

\* C14: after process calls delivering encSamples samples in all, and no
\* other call, floor(encSamples / frame_size) frames have been sent and as
\* many capture timestamps recorded, and the leftover buffer holds
\* encSamples mod frame_size samples.
C14_Chunking ==
    OnlyProcessCalls =>
        /\ EncFramesSent = encSamples \div FRAME_SIZE
        /\ Len(audio_encoder.audio_buffer.capture_times) = encSamples \div FRAME_SIZE
        /\ audio_encoder.leftover_data = encSamples % FRAME_SIZE

\* three calls made, samples of the last one kept for the next call
C14_Witness ==
    /\ OnlyProcessCalls
    /\ encCalls >= 3
    /\ audio_encoder.leftover_data > 0
    /\ audio_encoder.leftover_data < encFrame.samples
    /\ Len(audio_encoder.audio_buffer.capture_times) > encCalls

\* C15: a process call that returns Ok appends to the capture timestamps the
\* timestamp of its raw frame once per frame it sends, and nothing else; 15
\* raw frames of 1024 samples give 16 entries, the last two equal to the
\* timestamp of the 15th raw frame.
C15_CaptureTimes ==
    /\ [][(encOp' = "process" /\ encCalls' = encCalls + 1) =>
            LET m == (audio_encoder.leftover_data + encFrame'.samples) \div FRAME_SIZE
            IN /\ audio_encoder'.audio_buffer.capture_times =
                     audio_encoder.audio_buffer.capture_times
                        \o [i \in 1..m |-> encFrame'.timestamp]
               /\ EncFramesSent' = EncFramesSent + m]_vars
    /\ [](OnlyProcessCalls /\ encCalls = 15 /\ encSamples = 15 * RAW_SAMPLES =>
            /\ Len(audio_encoder.audio_buffer.capture_times) = 16
            /\ audio_encoder.audio_buffer.capture_times[15] = 15
            /\ audio_encoder.audio_buffer.capture_times[16] = 15)

\* the 15th raw frame of 1024 samples has completed two encoder frames
C15_Witness ==
    /\ OnlyProcessCalls
    /\ encCalls = 15
    /\ encSamples = 15 * RAW_SAMPLES
    /\ encOp = "process"
    /\ encFrame.timestamp = 15
    /\ Len(audio_encoder.audio_buffer.capture_times) = 16

\* C16: a process call on a raw frame whose sample count is not a multiple
\* of the channel count returns an error and leaves the encoder, its leftover
\* buffer, next_pts, the audio buffer and the samples as they were.
C16_RejectsOddFrame ==
    [][(encOp' \in {"process", "process_err"} /\ encFrame'.samples % CHANNELS # 0) =>
          /\ encOp' = "process_err"
          /\ audio_encoder' = audio_encoder
          /\ ~encFrame'.boosted]_vars

\* C16 (amended): while an encoder is present, such a call returns an error;
\* with no encoder present it returns Ok; in both cases the encoder, its
\* leftover buffer, next_pts, the audio buffer and the samples stay as they
\* were.
C16_RejectsOddFrameWithEncoder ==
    [][(encOp' \in {"process", "process_err"} /\ encFrame'.samples % CHANNELS # 0) =>
          /\ encOp' = (IF audio_encoder.encoder THEN "process_err" ELSE "process")
          /\ audio_encoder' = audio_encoder
          /\ ~encFrame'.boosted]_vars

\* an odd frame has been rejected by an encoder that holds leftover samples
C16_Witness ==
    /\ encOp = "process_err"
    /\ encFrame.samples % CHANNELS # 0
    /\ audio_encoder.encoder
    /\ audio_encoder.leftover_data > 0
    /\ audio_encoder.next_pts > 0

\* C17: after a reset that returned Ok, an encoder is present, the audio
\* buffer holds no frames and no capture timestamps, and next_pts is 0.
C17_ResetState ==
    encOp = "reset" =>
        /\ audio_encoder.encoder
        /\ audio_encoder.audio_buffer.frames = EmptyMap
        /\ audio_encoder.audio_buffer.capture_times = <<>>
        /\ audio_encoder.next_pts = 0

\* C18: from every state of the two buffers, reset leaves the video buffer
\* without frames and keyframe DTS values and the audio buffer without frames
\* and capture timestamps, and a second reset changes nothing more.
C18_ResetEmpties ==
    LET v == VideoBufferReset(video_buffer)
        a == AudioBufferReset(audio_encoder.audio_buffer)
    IN /\ v.frames = EmptyMap
       /\ v.key_frame_keys = <<>>
       /\ GetLastGopStart(v) = None
       /\ VideoBufferReset(v) = v
       /\ a.frames = EmptyMap
       /\ a.capture_times = <<>>
       /\ AudioBufferReset(a) = a

\* both buffers held frames, a save has written them and reset both
C18_Witness ==
    /\ file.status = "ok"
    /\ file.video # <<>>
    /\ file.audio # <<>>
    /\ ~saving
    /\ video_buffer = VideoBufferReset(video_buffer)
    /\ audio_encoder.audio_buffer = AudioBufferReset(audio_encoder.audio_buffer)

\* C19: no worker is gone because process() failed on a raw frame.
C19_WorkersSurviveBadFrame ==
    vw.pc # "panicked" /\ aw.pc # "panicked"

\* C20: ShadowCapMode::new succeeds exactly for max_seconds <= 86400, and
\* then the video window is max_seconds * 1,000,000 microseconds, the window
\* the audio buffer gets for the same max_seconds.
C20_WindowConfig ==
    cfg.status # "none" =>
        /\ (cfg.status = "ok") <=> (cfg.max_seconds <= MAX_SECONDS)
        /\ cfg.status = "ok" =>
              /\ cfg.video_window = MulMicros(cfg.max_seconds)
              /\ cfg.video_window = cfg.audio_window

\* C21: once on_save has returned Ok, every frame stored in the video buffer
\* was produced by the encoder instance created by that save's reset: no
\* packet of the instance before it is inserted into the reset buffer.
C21_NoStalePacket ==
    (main.pc = "select" /\ saveLog = SaveOrder) =>
        \A d \in DOMAIN video_buffer.frames :
            video_buffer.frames[d].data = video_encoder.id

\* C22: after reset, the buffer behaves as a newly constructed buffer with
\* the same window: whatever is inserted after the reset, the stored frames
\* and the keyframe list are those of a fresh buffer given the same inserts.
C22_ResetIsFresh ==
    /\ video_buffer.frames = bufFresh.frames
    /\ video_buffer.key_frame_keys = bufFresh.key_frame_keys

\* C23: insert returns in every state that a sequence of insert,
\* insert_capture_time and reset calls reaches: its trim loop never spins on
\* an empty frames map while the capture-time span is at least the window.
C23_InsertTerminates == ~audio_encoder.audio_buffer.hung

\* C24: save_buffer never indexes the capture timestamps out of bounds: for
\* every pair of buffers a save finds, the muxer completes or returns an
\* error, and does not abort.
C24_NoIndexPanic == file.status # "panic" /\ main.pc # "panicked"

\* C25: after reset_encoder has returned Ok no sample handed in before the
\* reset is still waiting in leftover_data to be sent to the new encoder.
C25_ResetDropsLeftover ==
    encOp = "reset" => audio_encoder.leftover_data = 0

\* the keyframe list of the last insert after its push, before any eviction
PushedKeys ==
    IF video_buffer.frames[bufDts].is_keyframe
    THEN Append(bufPrev.key_frame_keys, bufDts)
    ELSE bufPrev.key_frame_keys

\* the last call was an insert, and it evicted
BufEvicted ==
    /\ bufOp = "insert"
    /\ bufDts \in DOMAIN video_buffer.frames
    /\ video_buffer.key_frame_keys # PushedKeys

\* C26: an eviction removes every entry with dts below the second recorded
\* keyframe DTS and the first recorded keyframe DTS, and leaves every entry
\* with dts at or above the second keyframe DTS and all later keyframe DTS
\* values as they were.
C26_EvictsOldestGop ==
    /\ bufOp = "insert" => bufDts \in DOMAIN video_buffer.frames
    /\ BufEvicted =>
          /\ Len(PushedKeys) >= 2
          /\ video_buffer.key_frame_keys = Tail(PushedKeys)
          /\ DOMAIN video_buffer.frames =
                {d \in DOMAIN bufPrev.frames \cup {bufDts} : d >= PushedKeys[2]}
          /\ \A d \in DOMAIN video_buffer.frames \ {bufDts} :
                video_buffer.frames[d] = bufPrev.frames[d]

\* an eviction has removed a GOP of two frames and kept a frame stored before
C26_Witness ==
    /\ BufEvicted
    /\ Cardinality(DOMAIN bufPrev.frames \ DOMAIN video_buffer.frames) >= 2
    /\ Cardinality(DOMAIN video_buffer.frames \cap DOMAIN bufPrev.frames) >= 1

\* C27: an insert that leaves at most one keyframe recorded removes no
\* stored frame, however far the PTS span exceeds the window.
C27_SingleKeyframeKeepsAll ==
    (bufOp = "insert" /\ bufDts \in DOMAIN video_buffer.frames /\ Len(PushedKeys) <= 1) =>
        /\ DOMAIN video_buffer.frames = DOMAIN bufPrev.frames \cup {bufDts}
        /\ \A d \in DOMAIN bufPrev.frames \ {bufDts} :
              video_buffer.frames[d] = bufPrev.frames[d]
        /\ video_buffer.key_frame_keys = PushedKeys

\* one keyframe recorded, frames stored before it, and a span past the window
C27_Witness ==
    /\ bufOp = "insert"
    /\ Len(video_buffer.key_frame_keys) = 1
    /\ Len(PushedKeys) = 1
    /\ \E d \in DOMAIN video_buffer.frames : d < video_buffer.key_frame_keys[1]
    /\ StoredSpan(video_buffer) >= 2 * video_buffer.max_time

\* PTS span of the frames stored when the last insert tested the window
SpanAtInsert ==
    LET P == StoredPts(bufPrev) \cup {video_buffer.frames[bufDts].pts}
    IN SetMax(P) - SetMin(P)

\* under steady input with PTS = DTS: each insert evicts at most one GOP and
\* only when the span is at least the window, and once the first frame has
\* been evicted the stored span lies in [window - gop * interval, window)
SteadyBounds ==
    (~stream.bframes /\ stream.script = <<>> /\ bufOp = "insert") =>
        /\ bufDts \in DOMAIN video_buffer.frames
        /\ Len(video_buffer.key_frame_keys) >= Len(PushedKeys) - 1
        /\ BufEvicted => SpanAtInsert >= stream.window
        /\ 0 \notin DOMAIN video_buffer.frames =>
              /\ stream.window - stream.gop * stream.interval <= StoredSpan(video_buffer)
              /\ StoredSpan(video_buffer) < stream.window

\* the buffer has been fed 10 s of the given test stream
AfterTestInput(bframes) ==
    stream = TestStream(bframes) /\ bufCalls = TEST_SECONDS * TEST_FPS

\* C28: for steady input with PTS = DTS and gop * interval < window, each
\* insert evicts at most one GOP and only when the span is >= window, the
\* span after the first eviction stays in [window - gop * interval, window),
\* and with a 5 s window, 60 fps and GOP 30 the buffer holds at most 270
\* frames spanning about 4.5 s after 10 s of input.
C28_SteadyWindow ==
    /\ SteadyBounds
    /\ AfterTestInput(FALSE) =>
          /\ Cardinality(DOMAIN video_buffer.frames) <= TEST_MAX_FRAMES
          /\ StoredSpan(video_buffer) >= TEST_MIN_DURATION
          /\ StoredSpan(video_buffer) <= TEST_MAX_DURATION

\* C28 (amended): the same bounds; with a 5 s window, 60 fps and GOP 30 the
\* buffer holds 300 frames spanning 299 frame intervals after 10 s of input
\* with PTS = DTS, and at most 270 frames spanning about 4.5 s after the
\* input of the test, whose PTS are reordered.
C28_SteadyWindowBounds ==
    /\ SteadyBounds
    /\ AfterTestInput(FALSE) =>
          /\ Cardinality(DOMAIN video_buffer.frames) = TEST_WINDOW \div TEST_FRAME_DURATION + 1
          /\ StoredSpan(video_buffer) = (TEST_WINDOW \div TEST_FRAME_DURATION) * TEST_FRAME_DURATION
    /\ AfterTestInput(TRUE) =>
          /\ Cardinality(DOMAIN video_buffer.frames) <= TEST_MAX_FRAMES
          /\ StoredSpan(video_buffer) >= TEST_MIN_DURATION
          /\ StoredSpan(video_buffer) <= TEST_MAX_DURATION

\* an insert of the steady test stream evicts a GOP of 30 frames
C28_Witness ==
    /\ stream = TestStream(FALSE)
    /\ BufEvicted
    /\ Cardinality(DOMAIN bufPrev.frames \ DOMAIN video_buffer.frames) = TEST_GOP
    /\ 0 \notin DOMAIN bufPrev.frames

\* DTS keys of the keyframes stored
StoredKeyframes == {d \in DOMAIN video_buffer.frames : video_buffer.frames[d].is_keyframe}

\* a scripted test has made all its insert calls
AfterScript(test) == stream = test /\ bufCalls = Len(test.script)

\* C29: for DTS-increasing insertions the keyframe list is the ascending list
\* of the DTS keys of the keyframes stored, and last_gop_start is the greatest
\* of them, or none when no keyframe is stored; test_video_buffer_trimming
\* leaves 4 frames and last_gop_start = 9, test_video_buffer_no_trim 3 frames
\* and last_gop_start = 3.
C29_KeyframeList ==
    /\ video_buffer.key_frame_keys = SortedSeq(StoredKeyframes)
    /\ GetLastGopStart(video_buffer) =
          IF StoredKeyframes = {} THEN None ELSE Some(SetMax(StoredKeyframes))
    /\ AfterScript(TrimmingTest) =>
          /\ Cardinality(DOMAIN video_buffer.frames) = 4
          /\ GetLastGopStart(video_buffer) = Some(9)
    /\ AfterScript(NoTrimTest) =>
          /\ Cardinality(DOMAIN video_buffer.frames) = 3
          /\ GetLastGopStart(video_buffer) = Some(3)

\* the trimming test has run to its end, having evicted two GOPs
C29_Witness ==
    /\ AfterScript(TrimmingTest)
    /\ video_buffer.key_frame_keys = <<6, 9>>
    /\ 0 \notin DOMAIN video_buffer.frames

\* C30: when insert_capture_time has returned, the capture times stored span
\* less than the window.
C30_TrimAtCaptureTime ==
    abufOp = "capture_time" =>
        LET caps == audio_encoder.audio_buffer.capture_times
        IN caps[Len(caps)] - caps[1] < audio_encoder.audio_buffer.max_time

\* the pairs handed to the audio buffer so far, and those it still holds
PairsInserted == SubSeq(stream.pairs, 1, abufCalls \div 2)

\* C31: when the audio buffer is fed insert(pts_i) / insert_capture_time(t_i)
\* pairs with increasing t_i, after each pair the frames map and the
\* capture-time list have equal length and hold exactly the newest pairs
\* inserted (a suffix); test_audio_buffer_trimming ends with 6 frames and
\* first capture time 9.
C31_KeepsNewestPairs ==
    (stream # NoStream /\ abufOp = "capture_time") =>
        LET buf == audio_encoder.audio_buffer
            n == Len(PairsInserted)
            k == Len(buf.capture_times)
        IN /\ ~buf.hung
           /\ Cardinality(DOMAIN buf.frames) = k
           /\ k >= 1 /\ k <= n
           /\ \A j \in 1..k : buf.capture_times[j] = PairsInserted[n - k + j][2]
           /\ DOMAIN buf.frames = {PairsInserted[i][1] : i \in (n - k + 1)..n}
           /\ (stream = AudioTrimmingTest /\ n = Len(stream.pairs)) =>
                  (k = 6 /\ buf.capture_times[1] = 9)

C31_Witness ==
    /\ stream = AudioTrimmingTest
    /\ abufOp = "capture_time"
    /\ abufCalls = 2 * Len(stream.pairs)
    /\ Len(audio_encoder.audio_buffer.capture_times) = 6
    /\ audio_encoder.audio_buffer.capture_times[1] = 9

\* frames the audio encoder has been sent since construction: the samples
\* taken in that have left the leftover buffer, frame_size at a time
AudioFramesSent == (encSamples - audio_encoder.leftover_data) \div FRAME_SIZE

\* C32: the i-th frame sent to the audio encoder since construction carries
\* pts = i * frame_size: next_pts is frame_size times the number of frames
\* sent, whatever calls were made in between, the PTS the codec still holds
\* are the last ones handed out, and with process calls only the encoded
\* keys are 0, frame_size, 2 * frame_size, ... ([0, 960] after two
\* 1024-sample frames).
C32_PtsSequence ==
    LET enc == audio_encoder
        n == Len(enc.pending)
    IN /\ (encSamples - enc.leftover_data) % FRAME_SIZE = 0
       /\ enc.next_pts = AudioFramesSent * FRAME_SIZE
       /\ \A j \in 1..n : enc.pending[j] = enc.next_pts - (n - j + 1) * FRAME_SIZE
       /\ \A pts \in DOMAIN enc.audio_buffer.frames :
              pts % FRAME_SIZE = 0 /\ pts < enc.next_pts - n * FRAME_SIZE
       /\ OnlyProcessCalls =>
              DOMAIN enc.audio_buffer.frames
                  = {i * FRAME_SIZE : i \in 0..(AudioFramesSent - n - 1)}
       /\ (OnlyProcessCalls /\ encCalls = 2 /\ encSamples = 2 * RAW_SAMPLES /\ n = 0) =>
              DOMAIN enc.audio_buffer.frames = {0, FRAME_SIZE}

C32_Witness ==
    /\ audio_encoder.id > 1
    /\ audio_encoder.next_pts >= 3 * FRAME_SIZE
    /\ DOMAIN audio_encoder.audio_buffer.frames # {}
    /\ \A pts \in DOMAIN audio_encoder.audio_buffer.frames : pts >= 2 * FRAME_SIZE

\* timestamps of the frames the video encoder has taken, in the order taken:
\* the packets in the encoded-packet queue, then those the hardware holds
EncodedTimestamps ==
    [i \in 1..(Len(encoded) + Len(video_encoder.pending)) |->
        IF i <= Len(encoded) THEN encoded[i][1]
        ELSE video_encoder.pending[i - Len(encoded)][1]]

\* C33: the video worker passes a popped raw frame on iff its timestamp is
\* >= last_timestamp + FRAME_INTERVAL (last_timestamp starting at 0 and set
\* to the timestamp of each frame passed on), so frames encoded one after
\* the other are at least FRAME_INTERVAL apart.
C33_Throttle ==
    [][/\ (raw_video # <<>> /\ raw_video' = Tail(raw_video)) =>
            LET current_time == Head(raw_video).timestamp
                passed == vw'.pc = "lock" /\ vw'.frame = Head(raw_video)
            IN /\ passed <=> current_time >= vw.last_timestamp + FRAME_INTERVAL
               /\ vw'.last_timestamp = IF passed THEN current_time ELSE vw.last_timestamp
       /\ \A i \in 1..(Len(EncodedTimestamps') - 1) :
              EncodedTimestamps'[i + 1] - EncodedTimestamps'[i] >= FRAME_INTERVAL
       /\ (Len(EncodedTimestamps') = 0 /\ vw'.pc = "idle" /\ video_encoder'.sent = 0)
              \/ vw'.last_timestamp >= FRAME_INTERVAL
      ]_vars

C33_Witness ==
    /\ Len(encoded) >= 2
    /\ encoded[2][1] - encoded[1][1] = FRAME_INTERVAL
    /\ events > Len(encoded) + Len(video_encoder.pending)
    /\ raw_video = <<>> /\ vw.pc = "idle"

\* C34: save_buffer writes only video frames whose DTS key is <= the DTS of
\* the last keyframe (get_last_gop_start), none of the GOP being filled after
\* it; with no keyframe in the buffer it returns an error and writes no
\* packet.
C34_MuxCutOff ==
    [][(main.pc = "s_mux" /\ main'.pc # "s_mux") =>
          LET last_keyframe == GetLastGopStart(video_buffer)
          IN IF ~last_keyframe.some
             THEN /\ main'.pc = "failed"
                  /\ saveLog'[Len(saveLog')] = "mux_err"
                  /\ file' = file
             ELSE main'.pc \in {"s_reset_v", "panicked"} =>
                     \A i \in 1..Len(file'.video) :
                        LET dts == file'.video[i].dts + file'.first_pts_offset
                        IN dts \in DOMAIN video_buffer.frames /\ dts <= last_keyframe.v
      ]_vars

C34_Witness ==
    /\ main.pc = "s_reset_v"
    /\ file.status = "ok"
    /\ Len(file.video) >= 1
    /\ \E dts \in DOMAIN video_buffer.frames : dts > GetLastGopStart(video_buffer).v

\* the DTS keys save_buffer visits, and those among them it does not skip
MuxVisited ==
    {dts \in DOMAIN video_buffer.frames : dts <= GetLastGopStart(video_buffer).v}
MuxKept ==
    {dts \in MuxVisited :
        ~(/\ video_buffer.frames[dts].pts < audio_encoder.audio_buffer.capture_times[1]
          /\ ~video_buffer.frames[dts].is_keyframe)}

\* C35: of the frames visited in DTS order, exactly the non-keyframes with
\* pts below the first audio capture timestamp are skipped; the base is the
\* PTS of the first frame not skipped, and every written video packet
\* carries pts - base and dts - base.
C35_PreTrimAndRebase ==
    (/\ file.status \notin {"none", "err"}
     /\ audio_encoder.audio_buffer.capture_times # <<>>) =>
        LET keys == SortedSeq(MuxKept)
            video_base_pts == video_buffer.frames[keys[1]].pts
        IN /\ Len(file.video) = Len(keys)
           /\ keys # <<>> => (file.first_offset /\ file.first_pts_offset = video_base_pts)
           /\ \A i \in 1..Len(keys) :
                 /\ file.video[i].pts = video_buffer.frames[keys[i]].pts - video_base_pts
                 /\ file.video[i].dts = keys[i] - video_base_pts

C35_Witness ==
    /\ file.status = "ok"
    /\ audio_encoder.audio_buffer.capture_times # <<>>
    /\ MuxKept # MuxVisited
    /\ Len(file.video) >= 2
    /\ file.video[1].dts < 0
    /\ \E dts \in MuxKept :
          video_buffer.frames[dts].pts < audio_encoder.audio_buffer.capture_times[1]

\* C36: when the encoded-packet queue is full, process and drain drop the
\* packet they would push: the queue keeps its content and order, the call
\* still returns Ok and further frames are taken; a packet in the queue is
\* never overwritten.
C36_BackPressure ==
    [][LET emitted == /\ video_encoder'.sent = video_encoder.sent + 1
                      /\ Len(video_encoder'.pending) = Len(video_encoder.pending)
           drained == video_encoder'.eof /\ ~video_encoder.eof
       IN /\ Len(encoded') <= ENCODED_CAP
          /\ Len(encoded') >= Len(encoded)
          /\ SubSeq(encoded', 1, Len(encoded)) = encoded
          /\ (Len(encoded) = ENCODED_CAP /\ emitted) =>
                 (encoded' = encoded /\ encOp' = "process")
          /\ (Len(encoded) = ENCODED_CAP /\ drained) =>
                 (encoded' = encoded /\ encOp' = "drain")
      ]_vars

C36_Witness ==
    /\ Len(encoded) = ENCODED_CAP
    /\ encOp = "process"
    /\ video_encoder.sent > ENCODED_CAP + Len(video_encoder.pending) + 1
    /\ encCalls < RingCalls

\* the keys on their way to the video buffer, in the order they will be
\* inserted: the packet the shadow worker holds, the encoded-packet queue,
\* the packets the encoder holds, and the raw frames not yet encoded
VideoKeysInFlight ==
    (IF sw.pc \in {"lock", "insert"} THEN <<sw.held[1]>> ELSE <<>>)
        \o [i \in 1..Len(encoded) |-> encoded[i][1]]
        \o [i \in 1..Len(video_encoder.pending) |-> video_encoder.pending[i][1]]
        \o (IF vw.pc \in {"lock", "process"} THEN <<vw.frame.timestamp>> ELSE <<>>)
        \o [i \in 1..Len(raw_video) |-> raw_video[i].timestamp]

StrictlyIncreasing(keys) == \A i \in 1..(Len(keys) - 1) : keys[i] < keys[i + 1]

\* C37: within a stream the keys of successive insertions into its buffer
\* are strictly increasing between two resets: every key on its way to the
\* video buffer is above the keys stored and below the keys behind it, and
\* every PTS the audio encoder still holds is above the PTS stored and below
\* the PTS given to later frames.
C37_InsertionOrder ==
    /\ StrictlyIncreasing(VideoKeysInFlight)
    /\ \A dts \in DOMAIN video_buffer.frames :
          \A i \in 1..Len(VideoKeysInFlight) : dts < VideoKeysInFlight[i]
    /\ StrictlyIncreasing(audio_encoder.pending)
    /\ \A pts \in DOMAIN audio_encoder.audio_buffer.frames :
          \A i \in 1..Len(audio_encoder.pending) : pts < audio_encoder.pending[i]
    /\ ~audio_encoder.audio_buffer.hung =>
          \A pts \in DOMAIN audio_encoder.audio_buffer.frames
                        \cup {audio_encoder.pending[i] : i \in 1..Len(audio_encoder.pending)} :
              pts < audio_encoder.next_pts

C37_Witness ==
    /\ DOMAIN video_buffer.frames # {}
    /\ sw.pc = "insert"
    /\ Len(VideoKeysInFlight) >= 2
    /\ DOMAIN audio_encoder.audio_buffer.frames # {}

\* C38: a capture callback that reads saving = true pushes nothing to the raw
\* frame queues, and on_save has stored saving = true before it starts to
\* acquire its locks.
C38_CallbackDropsWhileSaving ==
    [][/\ (saving /\ now' # now) => (raw_video' = raw_video /\ raw_audio' = raw_audio)
       /\ (main.pc = "select" /\ main'.pc = "s_poll") => (saving' /\ lock' = lock)
       /\ (\E l \in DOMAIN lock : lock[l] # "save" /\ lock'[l] = "save") => saving
      ]_vars

C38_Witness ==
    /\ saving
    /\ events = 2
    /\ now = HalfWindow
    /\ raw_video = <<>> /\ raw_audio = <<>>
    /\ vw.pc = "idle" /\ vw.last_timestamp = 0
    /\ aw.pc = "idle" /\ audio_encoder.audio_buffer.capture_times = <<>>
    /\ \E l \in DOMAIN lock : lock[l] = "save"

\* the process is shutting down or has ended, or a thread is stuck for good
Stopping ==
    \/ main.pc \in {"sd_term", "sd_join", "end", "failed", "panicked", "spin"}
    \/ audio_encoder.audio_buffer.hung

\* C39: commands are handled one at a time, and a ctrl-c that arrives during
\* a save is acted on after that save has completed: once the loop is back
\* in select! the system shuts down.
C39_CtrlCAfterSave ==
    /\ [][InSave => (stop' = stop /\ main'.pc \notin {"sd_term", "sd_join", "end"})]_vars
    /\ (ctrl_c # "none" /\ main.pc = "select") ~> Stopping

\* C40: in runs without reset, after every insert (and the trim it may make)
\* the cached min and max PTS of the video buffer are the minimum and the
\* maximum PTS of the frames stored.
C40_CachedWindow ==
    IF DOMAIN video_buffer.frames = {}
    THEN bufOp = "new" /\ video_buffer.time_window = TimeWindowNew
    ELSE /\ video_buffer.time_window.min_time = Some(SetMin(StoredPts(video_buffer)))
         /\ video_buffer.time_window.max_time = Some(SetMax(StoredPts(video_buffer)))

C40_Witness ==
    /\ bufOp = "insert"
    /\ Cardinality(DOMAIN video_buffer.frames) < Cardinality(DOMAIN bufPrev.frames)
    /\ Cardinality(DOMAIN video_buffer.frames) >= 2
    /\ video_buffer.time_window.min_time.v > bufPrev.time_window.min_time.v
    /\ video_buffer.time_window.min_time.v < video_buffer.time_window.max_time.v

====
